---- MODULE Spec2Model ----
(***************************************************************************)
(* A model of whoopsync: the merge of fetched records into the category    *)
(* tables (DataManager.store_X), the sync daemon (SyncDaemon), the         *)
(* request loop of the API client (WhoopAPI._make_request,                 *)
(* TokenClient.request) and the credential lifecycle (AuthManager,         *)
(* TokenClient, TokenManager, TokenRefresher).                             *)
(*                                                                         *)
(* Time is a natural number of minutes.  A timestamp string of the remote  *)
(* API is an ISO-8601 string with the suffix "Z", as the WHOOP API sends   *)
(* it; a datetime is a pair of an instant and a tzinfo ("utc" for an aware *)
(* value, "naive" for a value read back from a DateTime column).           *)
(***************************************************************************)
EXTENDS Integers, Sequences, FiniteSets, TLC

----------------------------------------------------------------------------
(* Bounds of the model. *)

MaxTime == 2          \* timestamps of records range over 1..MaxTime
MaxBatch == 2         \* longest batch handed to one store_X call
MaxStores == 2        \* store_X calls in one behaviour of SpecMerge
MaxPage == 1          \* longest list of records one fetch of the daemon returns
MaxFetched == 2       \* fetches of the daemon that return records, in one behaviour
MaxCycles == 2        \* sync cycles of the daemon in one behaviour
MaxFairFetched == 1   \* fetches that return records, in one behaviour of SpecSyncFair

Users == {"u1", "u2"}
Cats == {"cycle", "sleep", "workout", "recovery"}
Ids == {1001, 1002}
SleepIds == {2001, 2002}      \* the sleeps a recovery of cycle 1001 may belong to
Vals == {"a", "b"}
Times == 1..MaxTime
None == "None"

----------------------------------------------------------------------------
(* Datetimes and the records of the remote API. *)

\* The "updated_at" strings a payload carries: "<t>Z".
IsoStrings == [t : Times, suffix : {"Z"}]

\* A payload without the "updated_at" field: cycle_data.get("updated_at") is None.
Missing == [t |-> 0, suffix |-> None]

\* The value of get_last_data_timestamp when the user has no row (None).
NoTime == 0

\* datetime.fromisoformat(s.replace("Z", "+00:00")): an aware UTC datetime.
fromisoformat(s) ==
    [t |-> s.t, tzinfo |-> IF s.suffix \in {"Z", "+00:00"} THEN "utc" ELSE "naive"]

\* What a DateTime column gives back once the session has committed and the
\* row is loaded again: the same wall-clock value without tzinfo.
ColumnValue(dt) == [t |-> dt.t, tzinfo |-> "naive"]

\* existing.updated_at.replace(tzinfo=timezone.utc) when tzinfo is None.
replace_tzinfo_utc(dt) ==
    IF dt.tzinfo = "naive" THEN [t |-> dt.t, tzinfo |-> "utc"] ELSE dt

\* The payloads of one category.  A recovery is keyed by (cycle_id, sleep_id),
\* every other category by id.  val stands for score_state, the scored fields
\* and the raw payload; created_at, start and end are times.  One payload of each category lacks "updated_at".
Payloads(cat) ==
    IF cat = "recovery"
    THEN [cycle_id : {1001}, sleep_id : SleepIds, updated_at : IsoStrings, val : Vals,
          created_at : {1}, start : {1}, end : {1}]
         \cup {[cycle_id |-> 1001, sleep_id |-> 2001, updated_at |-> Missing, val |-> "a",
                created_at |-> 1, start |-> 1, end |-> 1]}
    ELSE [id : Ids, updated_at : IsoStrings, val : Vals,
          created_at : {1}, start : {1}, end : {1}]
         \cup {[id |-> 1001, updated_at |-> Missing, val |-> "a",
                created_at |-> 1, start |-> 1, end |-> 1]}

\* The payloads of one record delivered again with other "created_at",
\* "start" and "end": Versions are the values the three fields take.
Versions == {1, 2}

VersionPayloads(cat) ==
    IF cat = "recovery"
    THEN {[cycle_id |-> 1001, sleep_id |-> 2001, updated_at |-> s, val |-> v,
           created_at |-> n, start |-> n, end |-> n] :
             s \in IsoStrings, v \in Vals, n \in Versions}
    ELSE {[id |-> 1001, updated_at |-> s, val |-> v,
           created_at |-> n, start |-> n, end |-> n] :
             s \in IsoStrings, v \in Vals, n \in Versions}

WellFormed(rec) == rec.updated_at # Missing

\* The key the store_X loop looks a payload up by.
KeyOf(cat, rec) ==
    IF cat = "recovery" THEN <<rec.cycle_id, rec.sleep_id>> ELSE <<rec.id>>

Batches(cat) ==
    UNION {[1..n -> Payloads(cat)] : n \in 0..MaxBatch}

----------------------------------------------------------------------------
VARIABLES
    db,        \* db[cat]: the rows of the category's table, in insertion order
    last,      \* the last store_X call: its category, the length n of its batch,
               \* the batch itself when it is one record (single), its
               \* stored_count, whether it raised, and the rows it inserted and
               \* overwritten
    repeat,    \* the last store_X call delivered the one record of the call before it again
    nstores,   \* store_X calls so far
    \* SyncDaemon
    running,   \* self.running
    ncycles,   \* sync cycles started so far
    pc,        \* pc[u]: the await sync_user_data(u) is suspended at; "done" when it
               \* has returned, "failed" when it has returned through its except clause
    wm,        \* wm[u][cat]: last_cycle_time, last_sleep_time, ... of sync_user_data(u)
    stored,    \* stored[u][cat]: stored_cycles, stored_sleeps, ... of sync_user_data(u),
               \* <<n>> once the name is bound and <<>> before
    page,      \* page[u][cat]: the records the last merged fetch of (u, cat) returned
    again,     \* again[u][cat]: that fetch returned what the one before it returned
    nfetched,  \* fetches that returned records so far
    sched,     \* where run is: at the test of its while loop ("loop"), in gather,
               \* in the sleep between two cycles, or returned ("exited")
    ticks,     \* the seconds of the present sleep that have passed
    signal_at, \* where run was when the signal handler called shutdown, None
               \* when it has not
    failed_at, \* failed_at[u]: where the sync of u in this cycle failed (the
               \* session, the profile request or a category), and whether the
               \* failure was the one of a merge
    merged,    \* merged[u]: the categories the sync of u in this cycle has merged
    \* the remote service and the clock
    now,       \* datetime.utcnow(), in minutes
    issued,    \* tokens the token endpoint has issued so far
    nexch,     \* nexch[u]: refresh exchanges sent to the token endpoint for u
    revoked,   \* revoked[u]: the token endpoint has rejected a refresh token of u
               \* since u last authorized
    \* WhoopAPI over DataManager's user tokens
    utok,      \* utok[u]: the UserToken row of u, NoToken when there is none
    rq,        \* the _make_request call in progress: its user, mode, retry_delay,
               \* the await it is suspended at (pc), attempt, the token of its
               \* Authorization header (bearer), the refreshes it forced on a
               \* 401 (nrefresh), and the error it raised (err)
    resps,     \* the responses that call has received, in order
    sleeps,    \* the durations that call has passed to time.sleep, in order
    nrequests, \* _make_request calls so far
    \* TokenClient and TokenRefresher over AuthManager's tokens
    oauth,     \* oauth[u]: the OAuthToken row of u, NoOAuth when there is none
    tc,        \* tc[c]: the TokenClient.request call of caller c
    rf,        \* the refresh_all_tokens call in progress: the tokens it still
               \* has to refresh (queue; it awaits the exchange of the first)
    ncalls,    \* TokenClient.request calls so far
    nbatches,  \* refresh_all_tokens calls so far
    fpc,       \* where the get_cycles / get_sleep / ... call is: "idle", "await"
               \* (suspended at the request of a page), "returned" or "raised"
    params,    \* params["nextToken"] of the call, None when the key is not set
    all_records, \* all_records of the call
    next_token,  \* next_token of the call
    sent,      \* the "nextToken" of every request the call has sent, in order
    got,       \* the responses the call has received, in order
    ngets,     \* get_cycles / get_sleep / ... calls so far
    otable,    \* the rows of the oauth_tokens table, in insertion order
    utable,    \* the rows of the user tokens table, in insertion order
    cret,      \* the last call on one of the two tables: its arguments, the
               \* time of the call and what it returned
    ncred,     \* calls on the two tables so far
    ex,        \* ex[c]: the refresh_token call of caller c, step by step
    lt,        \* lt[u]: the _make_request call of the task of user u
    holder,    \* the user whose task is in time.sleep, None when no task is
    wake,      \* the request the task in time.sleep goes on with, and the
               \* seconds of the sleep
    nrounds,   \* gather calls so far
    lpos,      \* lpos[u]: the request of sync_user_data the task of u is at:
               \* "profile", a category, or "done"
    lresp,     \* lresp[u]: the status of the last response the task of u got
    utbl,      \* the rows of the users table, in insertion order
    ucall,     \* the last create_or_update_user call: its arguments, the row
               \* of the user before it and the user it returned
    nucalls,   \* create_or_update_user calls so far
    states,    \* OAuthStateStore.states: states[s] is <<timestamp>> when s is a
               \* key of the dict, <<>> when it is not
    clock,     \* time.time(), in seconds
    cleanup_time, \* <<current_time>> of the _cleanup_expired call that has read
               \* the time and waits for the lock, <<>> when there is none
    gen_at,    \* gen_at[s]: <<the time generate_state produced s>>, <<>> when
               \* it has not
    nvalid,    \* nvalid[s]: how many validate_state(s) calls returned True
    vlast,     \* the last validate_state call: its state, the time of the
               \* call, whether the state was a key, and what it returned
    nvalidates \* validate_state calls so far

mergeVars == <<last, repeat, nstores>>

fetchVars == <<fpc, params, all_records, next_token, sent, got, ngets>>

credVars == <<otable, utable, cret, ncred>>

exchVars == <<ex>>

loopVars == <<lt, holder, wake, nrounds, lpos, lresp>>
userVars == <<utbl, ucall, nucalls>>
stateVars == <<states, clock, cleanup_time, gen_at, nvalid, vlast, nvalidates>>
syncVars == <<running, ncycles, pc, wm, stored, page, again, nfetched, sched, ticks,
             signal_at, failed_at, merged>>
remoteVars == <<now, issued, nexch, revoked>>
reqVars == <<utok, rq, resps, sleeps, nrequests>>
tokVars == <<oauth, tc, rf, ncalls, nbatches>>
authVars == <<remoteVars, reqVars, tokVars>>
vars == <<db, mergeVars, syncVars, authVars, fetchVars, credVars, exchVars, loopVars, userVars, stateVars>>

NoCall == [cat |-> None, single |-> <<>>, n |-> 0, stored_count |-> 0,
           raised |-> FALSE, inserted |-> 0, updated |-> 0]

----------------------------------------------------------------------------
(* DataManager.store_cycles / store_sleeps / store_workouts /             *)
(* store_recoveries.                                                       *)

\* A query that never finds a row, to set against the one of the code.
QueryNothing(tbl, key) == 0

\* session.query(T).filter(T.key == key).first(): the index of the first row
\* with the key, 0 when there is none.
QueryFirst(tbl, key) ==
    LET hits == {i \in DOMAIN tbl : tbl[i].key = key}
    IN IF hits = {} THEN 0 ELSE CHOOSE i \in hits : \A j \in hits : i <= j

\* _create_cycle / _create_sleep / _create_workout / _create_recovery.
CreateRow(cat, user_id, rec) ==
    [key |-> KeyOf(cat, rec), user_id |-> user_id,
     updated_at |-> fromisoformat(rec.updated_at), val |-> rec.val,
     created_at |-> rec.created_at, start |-> rec.start, end |-> rec.end]

\* A row written again from the payload, to set against the update.
ReplaceRow(cat, row, rec) == CreateRow(cat, row.user_id, rec)

\* _update_cycle / _update_sleep / _update_workout / _update_recovery.
UpdateRow(cat, row, rec) ==
    [row EXCEPT !.updated_at = fromisoformat(rec.updated_at), !.val = rec.val,
                !.end = IF cat = "cycle" THEN rec.end ELSE @]

\* Two other comparisons, >= and #, to set against the one of the code.
IsNewerOrEqual(api_updated_at, existing_updated_at) ==
    api_updated_at.t >= existing_updated_at.t

IsDifferent(api_updated_at, existing_updated_at) ==
    api_updated_at.t # existing_updated_at.t

\* api_updated_at > existing_updated_at.
IsNewer(api_updated_at, existing_updated_at) ==
    api_updated_at.t > existing_updated_at.t

\* The loop over the batch.  The result is the table as the session sees it,
\* the stored_count and whether a record raised.
RECURSIVE StoreLoop(_, _, _, _, _)
StoreLoop(cat, tbl, user_id, data, stored_count) ==
    IF data = <<>>
    THEN [tbl |-> tbl, stored_count |-> stored_count, raised |-> FALSE]
    ELSE
      LET rec == Head(data)
          i == QueryFirst(tbl, KeyOf(cat, rec))
      IN IF ~WellFormed(rec)
         THEN \* None.replace(...) raises AttributeError
              [tbl |-> tbl, stored_count |-> stored_count, raised |-> TRUE]
         ELSE IF i # 0
         THEN LET api_updated_at == fromisoformat(rec.updated_at)
                  existing_updated_at == replace_tzinfo_utc(tbl[i].updated_at)
              IN IF api_updated_at.tzinfo # existing_updated_at.tzinfo
                 THEN \* comparing a naive and an aware datetime raises TypeError
                      [tbl |-> tbl, stored_count |-> stored_count, raised |-> TRUE]
                 ELSE IF IsNewer(api_updated_at, existing_updated_at)
                 THEN StoreLoop(cat, [tbl EXCEPT ![i] = UpdateRow(cat, @, rec)],
                                user_id, Tail(data), stored_count + 1)
                 ELSE StoreLoop(cat, tbl, user_id, Tail(data), stored_count)
         ELSE StoreLoop(cat, Append(tbl, CreateRow(cat, user_id, rec)),
                        user_id, Tail(data), stored_count + 1)

\* session.commit(): the rows are written and expire; read again they carry
\* the column's value.
Commit(tbl) == [i \in DOMAIN tbl |-> [tbl[i] EXCEPT !.updated_at = ColumnValue(@)]]

\* A call that commits what the loop wrote before a record raised, to set
\* against the rollback of the code.
StoreRecordsNoRollback(cat, tbl, user_id, data) ==
    LET r == StoreLoop(cat, tbl, user_id, data, 0)
    IN [tbl |-> Commit(r.tbl), stored_count |-> r.stored_count, raised |-> r.raised]

\* One store_X call on the table: the table after it and what it returned.
\* A call that raises commits nothing.
StoreRecords(cat, tbl, user_id, data) ==
    LET r == StoreLoop(cat, tbl, user_id, data, 0)
    IN IF r.raised
       THEN [tbl |-> tbl, stored_count |-> 0, raised |-> TRUE]
       ELSE [tbl |-> Commit(r.tbl), stored_count |-> r.stored_count, raised |-> FALSE]

\* The earliest updated_at of the user's rows, to set against the latest.
get_first_data_timestamp(d, user_id, data_type) ==
    LET ts == {d[data_type][i].updated_at.t :
                 i \in {j \in DOMAIN d[data_type] : d[data_type][j].user_id = user_id}}
    IN IF ts = {} THEN NoTime ELSE CHOOSE t \in ts : \A s \in ts : t <= s

\* DataManager.get_last_data_timestamp: max(updated_at) of the user's rows,
\* None (NoTime) when the user has no row.
get_last_data_timestamp(d, user_id, data_type) ==
    LET ts == {d[data_type][i].updated_at.t :
                 i \in {j \in DOMAIN d[data_type] : d[data_type][j].user_id = user_id}}
    IN IF ts = {} THEN NoTime ELSE CHOOSE t \in ts : \A s \in ts : s <= t

Store(cat, user_id, data) ==
    /\ nstores < MaxStores
    /\ LET r == StoreRecords(cat, db[cat], user_id, data)
           call == [cat |-> cat,
                    single |-> IF Len(data) = 1 THEN data ELSE <<>>,
                    n |-> Len(data),
                    stored_count |-> r.stored_count, raised |-> r.raised,
                    inserted |-> Len(r.tbl) - Len(db[cat]),
                    updated |-> Cardinality({i \in DOMAIN db[cat] : r.tbl[i] # db[cat][i]})]
       IN /\ db' = [db EXCEPT ![cat] = r.tbl]
          /\ last' = call
          /\ repeat' = (/\ Len(data) = 1 /\ last.single = data /\ last.cat = cat
                        /\ ~last.raised /\ ~r.raised)
    /\ nstores' = nstores + 1
    /\ UNCHANGED <<syncVars, authVars, fetchVars, credVars, exchVars, loopVars, stateVars, userVars>>

store_cycles == \E u \in Users, data \in Batches("cycle") : Store("cycle", u, data)
store_sleeps == \E u \in Users, data \in Batches("sleep") : Store("sleep", u, data)
store_workouts == \E u \in Users, data \in Batches("workout") : Store("workout", u, data)
store_recoveries ==
    \E u \in Users, data \in Batches("recovery") : Store("recovery", u, data)

----------------------------------------------------------------------------
(* SyncDaemon: run starts a cycle of one sync_user_data task per user; the  *)
(* tasks interleave at their awaits (the profile request and the four       *)
(* fetches); everything between two awaits is one step.                     *)

CatOrder == <<"cycle", "sleep", "workout", "recovery">>

\* An order with the recoveries before the sleeps, to set against the one of
\* the code.
RecoveryFirst(cat) ==
    IF cat = "cycle" THEN "recovery"
    ELSE IF cat = "recovery" THEN "sleep"
    ELSE IF cat = "sleep" THEN "workout"
    ELSE "done"

\* The await after the fetch and merge of cat: the next category, or the end.
NextPc(cat) ==
    IF cat = "cycle" THEN "sleep"
    ELSE IF cat = "sleep" THEN "workout"
    ELSE IF cat = "workout" THEN "recovery"
    ELSE "done"

\* The record lists a fetch of the daemon may return.
SyncPayloads(cat) == {rec \in Payloads(cat) : rec.val = "a"}

\* The lists of at most MaxPage records, and the lists of a record followed
\* by one without "updated_at".
SyncBatches(cat) ==
    UNION {[1..n -> SyncPayloads(cat)] : n \in 0..MaxPage}
    \cup {<<r, m>> : r \in {p \in SyncPayloads(cat) : WellFormed(p)},
                     m \in {p \in SyncPayloads(cat) : ~WellFormed(p)}}

\* sync_interval: the seconds run sleeps between two cycles, one at a time.
sync_interval == 2

NoFailure == [at |-> None, merge |-> FALSE]

\* A loop that goes on whatever self.running is, and a sleep that does not
\* look at it, to set against the two tests of run.
LoopGoesOn == TRUE

SleepGoesOn == FALSE

\* `while self.running`.
LoopTest == running

\* `if not self.running: break`, of the sleep.
SleepBreaks == ~running

\* run, at the test of `while self.running`: one task per user, started
\* together by gather.  Each task runs up to its first await at once: it
\* opens its session and sends the profile request.  A task whose
\* get_session raises goes through its except clause to `finally:
\* session.close()`, where session is unbound: the task ends with that
\* error ("crashed").
StartCycle ==
    /\ sched = "loop"
    /\ LoopTest
    /\ ncycles < MaxCycles
    /\ \E crash \in SUBSET Users :
          /\ pc' = [u \in Users |-> IF u \in crash THEN "crashed" ELSE "profile"]
          /\ failed_at' = [u \in Users |-> IF u \in crash
                                           THEN [at |-> "session", merge |-> FALSE]
                                           ELSE NoFailure]
    /\ merged' = [u \in Users |-> {}]
    /\ ncycles' = ncycles + 1
    /\ sched' = "gather"
    /\ UNCHANGED <<authVars, db, mergeVars, stateVars, userVars, loopVars, exchVars, credVars, fetchVars, running, wm, stored, page, again, nfetched,
                   ticks, signal_at>>

\* A gather that does not wait for the task of u.
NotAwaited(u) == TRUE

\* The task of u has returned: it ran to its end, or through its except
\* clause.
Returned(u) == pc[u] \in {"done", "failed"}

\* gather returns when every task has returned: run goes to sleep.
GatherReturns ==
    /\ sched = "gather"
    /\ \A u \in Users : Returned(u)
    /\ sched' = "sleep"
    /\ ticks' = 0
    /\ UNCHANGED <<authVars, db, mergeVars, stateVars, userVars, loopVars, exchVars, credVars, fetchVars, running, ncycles, pc, wm, stored, page, again,
                   nfetched, failed_at, merged, signal_at>>

\* gather raises the error of a task that ended with one: the except clause
\* of run calls shutdown and run returns, the other tasks left where they
\* are.
GatherRaises ==
    /\ sched = "gather"
    /\ \E u \in Users : pc[u] = "crashed"
    /\ running' = FALSE
    /\ sched' = "exited"
    /\ UNCHANGED <<authVars, db, mergeVars, stateVars, userVars, loopVars, exchVars, credVars, fetchVars, ncycles, pc, wm, stored, page, again,
                   nfetched, failed_at, merged, ticks, signal_at>>

\* One second of the sleep between two cycles.
SleepTick ==
    /\ sched = "sleep"
    /\ ~SleepBreaks
    /\ ticks < sync_interval
    /\ ticks' = ticks + 1
    /\ UNCHANGED <<authVars, db, mergeVars, stateVars, userVars, loopVars, exchVars, credVars, fetchVars, running, ncycles, pc, wm, stored, page, again,
                   nfetched, failed_at, merged, sched, signal_at>>

\* The sleep ends: the interval is over, or self.running is False (break).
SleepEnds ==
    /\ sched = "sleep"
    /\ SleepBreaks \/ ticks = sync_interval
    /\ sched' = "loop"
    /\ UNCHANGED <<authVars, db, mergeVars, stateVars, userVars, loopVars, exchVars, credVars, fetchVars, running, ncycles, pc, wm, stored, page, again,
                   nfetched, failed_at, merged, ticks, signal_at>>

\* `while self.running` is false: run returns.
RunExits ==
    /\ sched = "loop"
    /\ ~LoopTest
    /\ sched' = "exited"
    /\ UNCHANGED <<authVars, db, mergeVars, stateVars, userVars, loopVars, exchVars, credVars, fetchVars, running, ncycles, pc, wm, stored, page, again,
                   nfetched, failed_at, merged, ticks, signal_at>>

\* shutdown, called by the signal handler: self.running = False.
Shutdown ==
    /\ running
    /\ sched # "exited"
    /\ running' = FALSE
    /\ signal_at' = sched
    /\ UNCHANGED <<authVars, db, mergeVars, stateVars, userVars, loopVars, exchVars, credVars, fetchVars, ncycles, pc, wm, stored, page, again,
                   nfetched, failed_at, merged, sched, ticks>>

\* get_user_profile returned: create_or_update_user, then the four
\* get_last_data_timestamp reads; the task suspends in get_cycles.
ProfileOk(u) ==
    /\ sched = "gather"
    /\ pc[u] = "profile"
    /\ wm' = [wm EXCEPT ![u] = [c \in Cats |-> get_last_data_timestamp(db, u, c)]]
    /\ stored' = [stored EXCEPT ![u] = [c \in Cats |-> <<>>]]
    /\ pc' = [pc EXCEPT ![u] = "cycle"]
    /\ UNCHANGED <<authVars, db, mergeVars, stateVars, userVars, loopVars, exchVars, credVars, fetchVars, running, ncycles, page, again, nfetched,
                   failed_at, merged, sched, ticks, signal_at>>

\* A request of the task raised (WhoopAPIError): the except clause logs it
\* and the task ends.
RequestFails(u) ==
    /\ sched = "gather"
    /\ pc[u] \in {"profile"} \cup Cats
    /\ pc' = [pc EXCEPT ![u] = "failed"]
    /\ failed_at' = [failed_at EXCEPT ![u] = [at |-> pc[u], merge |-> FALSE]]
    /\ UNCHANGED <<authVars, db, mergeVars, stateVars, userVars, loopVars, exchVars, credVars, fetchVars, running, ncycles, wm, stored, page, again,
                   nfetched, merged, sched, ticks, signal_at>>

\* get_cycles / get_sleep / get_workouts / get_recoveries returned data: the
\* store_X call of the category, then the next fetch.  A store_X call that
\* raises ends the task.
FetchOk(u, cat, data) ==
    /\ sched = "gather"
    /\ pc[u] = cat
    /\ nfetched + (IF data = <<>> THEN 0 ELSE 1) <= MaxFetched
    /\ LET r == StoreRecords(cat, db[cat], u, data)
       IN /\ db' = [db EXCEPT ![cat] = r.tbl]
          /\ IF r.raised
             THEN /\ pc' = [pc EXCEPT ![u] = "failed"]
                  /\ failed_at' = [failed_at EXCEPT ![u] = [at |-> cat, merge |-> TRUE]]
                  /\ UNCHANGED <<stored, page, again, merged>>
             ELSE /\ pc' = [pc EXCEPT ![u] = NextPc(cat)]
                  /\ stored' = [stored EXCEPT ![u][cat] = <<r.stored_count>>]
                  /\ page' = [page EXCEPT ![u][cat] = data]
                  /\ again' = [again EXCEPT ![u][cat] = (data # <<>> /\ page[u][cat] = data)]
                  /\ merged' = [merged EXCEPT ![u] = @ \cup {cat}]
                  /\ UNCHANGED failed_at
    /\ nfetched' = nfetched + (IF data = <<>> THEN 0 ELSE 1)
    /\ UNCHANGED <<authVars, mergeVars, stateVars, userVars, loopVars, exchVars, credVars, fetchVars, running, ncycles, wm, sched, ticks, signal_at>>

sync_user_data ==
    \E u \in Users :
        \/ ProfileOk(u)
        \/ RequestFails(u)
        \/ \E cat \in Cats : \E data \in SyncBatches(cat) : FetchOk(u, cat, data)

----------------------------------------------------------------------------
(* The clock, the remote token endpoint and the remote resource API.       *)
(* Time is counted in minutes; expires_in is the lifetime of a token in     *)
(* minutes (the code receives it in seconds and adds it to utcnow()).       *)

MaxNow == 2           \* the clock runs over 0..MaxNow
MaxIssued == 2        \* tokens the token endpoint issues in one behaviour
MaxRequests == 1      \* _make_request calls in one behaviour

ExpiresIns == {2, 6}

\* What the token endpoint answers to a refresh exchange: a complete token
\* response, a 200 without all the fields, a 4xx rejecting the refresh token
\* (invalid_grant), or a failure of the transport or of the server.
TokenAnswers == {"ok", "incomplete", "rejected", "error"}

\* What the resource API answers: a status, with the Retry-After header of a
\* 429 when there is one; "error" is a request that raised a transport error.
RetryAfters == {<<>>, <<7>>}

ApiResponses ==
    [status : {"200", "401", "500", "error"}, retry_after : {<<>>}]
    \cup [status : {"429"}, retry_after : RetryAfters]

Tick ==
    /\ now < MaxNow
    /\ now' = now + 1
    /\ UNCHANGED <<db, mergeVars, stateVars, userVars, loopVars, exchVars, credVars, fetchVars, syncVars, issued, nexch, revoked, reqVars, tokVars>>

----------------------------------------------------------------------------
(* DataManager's user tokens and TokenManager.                              *)

NoToken == [access_token |-> 0, refresh_token |-> 0, expires_at |-> 0]

\* timedelta(minutes=5) of both is_token_valid.
ValidityBuffer == 5

save_oauth_token(tbl, user_id, access_token, refresh_token, expires_in, utcnow) ==
    [tbl EXCEPT ![user_id] = [access_token |-> access_token,
                              refresh_token |-> refresh_token,
                              expires_at |-> utcnow + expires_in]]

\* DataManager.is_token_valid: (is_valid, token).
DataManager_is_token_valid(tbl, user_id, utcnow) ==
    LET token == tbl[user_id]
    IN IF token = NoToken THEN [valid |-> FALSE, token |-> NoToken]
       ELSE IF token.expires_at < utcnow + ValidityBuffer
            THEN [valid |-> FALSE, token |-> token]
            ELSE [valid |-> TRUE, token |-> token]

\* TokenManager.refresh_token from the answer of the token endpoint on: the
\* table, the token it returns (NoToken for None) and whether it raised.
\* n is the token the endpoint issues.
TokenManager_refresh_token(tbl, user_id, answer, expires_in, utcnow, n) ==
    IF answer = "ok"
    THEN LET t == save_oauth_token(tbl, user_id, n, n, expires_in, utcnow)
         IN [tbl |-> t, token |-> t[user_id], raised |-> FALSE]
    ELSE IF answer = "incomplete"
         THEN [tbl |-> tbl, token |-> NoToken, raised |-> FALSE]
         ELSE [tbl |-> tbl, token |-> NoToken, raised |-> TRUE]

\* The OAuth callback of the authorization server: the code exchange gave a
\* token, which save_oauth_token stores.
callback ==
    \E u \in Users, expires_in \in ExpiresIns :
        /\ issued < MaxIssued
        /\ rq.pc \in {"idle", "returned", "raised"}
        /\ issued' = issued + 1
        /\ utok' = save_oauth_token(utok, u, issued + 1, issued + 1, expires_in, now)
        /\ revoked' = [revoked EXCEPT ![u] = FALSE]
        /\ UNCHANGED <<db, mergeVars, stateVars, userVars, loopVars, exchVars, credVars, fetchVars, syncVars, now, nexch, rq, resps, sleeps,
                       nrequests, tokVars>>

----------------------------------------------------------------------------
(* WhoopAPI._make_request.  The call is suspended at the awaits of          *)
(* get_valid_token ("token"), of the request of the loop ("sent"), of the   *)
(* refresh after a 401 ("refresh") and of the request after that refresh    *)
(* ("resent").  time.sleep does not suspend: the sleeps are part of the     *)
(* step that handles the response.                                          *)

max_retries == 3

RetryDelays == {1, 2}

Modes == {"static", "managed"}

\* user_tokens of the legacy mode.
user_tokens == [u \in Users |-> 100]

NewRequest(u, mode, delay) ==
    [user |-> u, mode |-> mode, retry_delay |-> delay, pc |-> "idle",
     attempt |-> 0, bearer |-> 0, nrefresh |-> 0, err |-> None]

Raise(r, e) == [r EXCEPT !.pc = "raised", !.err = e]

SendWith(r, access_token) == [r EXCEPT !.pc = "sent", !.bearer = access_token]

\* `continue`, or the end of the except clause: the next attempt of
\* range(max_retries), and the raise after the loop when there is none.
NextAttempt(r) ==
    IF r.attempt + 1 < max_retries
    THEN [r EXCEPT !.attempt = @ + 1, !.pc = "sent"]
    ELSE Raise(r, "Maximum retries exceeded")

\* except httpx.HTTPError: back off and go on, or raise on the last attempt.
HandleHTTPError(r, sl) ==
    IF r.attempt < max_retries - 1
    THEN [rq |-> NextAttempt(r), sleeps |-> Append(sl, r.retry_delay * (2 ^ r.attempt))]
    ELSE [rq |-> Raise(r, "Failed to make request"), sleeps |-> sl]

\* The call, up to its first await.
make_request ==
    \E u \in Users, mode \in Modes, delay \in RetryDelays :
        /\ rq.pc \in {"idle", "returned", "raised"}
        /\ nrequests < MaxRequests
        /\ nrequests' = nrequests + 1
        /\ resps' = <<>>
        /\ sleeps' = <<>>
        /\ LET r == NewRequest(u, mode, delay)
               v == DataManager_is_token_valid(utok, u, now)
               exchange == mode = "managed" /\ ~v.valid /\ v.token # NoToken
           IN /\ rq' = IF mode = "static" THEN SendWith(r, user_tokens[u])
                       ELSE IF v.valid THEN SendWith(r, v.token.access_token)
                       ELSE IF v.token # NoToken THEN [r EXCEPT !.pc = "token"]
                       ELSE Raise(r, "No valid token found")
              /\ nexch' = IF exchange THEN [nexch EXCEPT ![u] = @ + 1] ELSE nexch
        /\ UNCHANGED <<db, mergeVars, stateVars, userVars, loopVars, exchVars, credVars, fetchVars, syncVars, now, issued, revoked, utok, tokVars>>

\* The token endpoint answers an exchange of the call: the rest of
\* TokenManager.refresh_token, and what the call does with its result.
ExchangeAnsweredWithin(limit, answer, expires_in, onToken, onNone) ==
    /\ answer = "ok" => issued < limit
    /\ LET res == TokenManager_refresh_token(utok, rq.user, answer, expires_in,
                                             now, issued + 1)
       IN /\ utok' = res.tbl
          /\ rq' = IF ~res.raised /\ res.token # NoToken
                   THEN [rq EXCEPT !.pc = onToken, !.bearer = res.token.access_token]
                   ELSE Raise(rq, onNone)
    /\ issued' = IF answer = "ok" THEN issued + 1 ELSE issued
    /\ revoked' = IF answer = "rejected" THEN [revoked EXCEPT ![rq.user] = TRUE]
                  ELSE revoked
    /\ UNCHANGED <<db, mergeVars, stateVars, userVars, loopVars, exchVars, credVars, fetchVars, syncVars, now, nexch, resps, sleeps, nrequests, tokVars>>

ExchangeAnswered(answer, expires_in, onToken, onNone) ==
    ExchangeAnsweredWithin(MaxIssued, answer, expires_in, onToken, onNone)

\* get_valid_token returns: the request of the first attempt, or the raise
\* of line 91.
get_valid_token_returns ==
    \E answer \in TokenAnswers, expires_in \in ExpiresIns :
        /\ rq.pc = "token"
        /\ ExchangeAnswered(answer, expires_in, "sent", "No valid token found")

\* The response of an attempt.
attempt_response ==
    \E resp \in ApiResponses :
        /\ rq.pc = "sent"
        /\ resps' = Append(resps, [status |-> resp.status,
                                   retry_after |-> resp.retry_after,
                                   resent |-> FALSE])
        /\ LET refresh == /\ resp.status = "401" /\ rq.mode = "managed"
                          /\ utok[rq.user] # NoToken
               h == HandleHTTPError(rq, sleeps)
           IN /\ rq' = IF resp.status = "200" THEN [rq EXCEPT !.pc = "returned"]
                       ELSE IF resp.status = "429" THEN NextAttempt(rq)
                       ELSE IF resp.status = "401"
                            THEN IF refresh
                                 THEN [rq EXCEPT !.pc = "refresh", !.nrefresh = @ + 1]
                                 ELSE Raise(rq, "Authentication failed")
                       ELSE h.rq
              /\ sleeps' = IF resp.status = "429"
                           THEN Append(sleeps, IF resp.retry_after = <<>>
                                               THEN rq.retry_delay
                                               ELSE resp.retry_after[1])
                           ELSE IF resp.status \in {"500", "error"} THEN h.sleeps
                           ELSE sleeps
              /\ nexch' = IF refresh THEN [nexch EXCEPT ![rq.user] = @ + 1] ELSE nexch
        /\ UNCHANGED <<db, mergeVars, stateVars, userVars, loopVars, exchVars, credVars, fetchVars, syncVars, now, issued, revoked, utok, nrequests,
                       tokVars>>

\* The refresh after a 401 returns: the request with the new token, or the
\* raise of line 138.
refresh_returns ==
    \E answer \in TokenAnswers, expires_in \in ExpiresIns :
        /\ rq.pc = "refresh"
        /\ ExchangeAnswered(answer, expires_in, "resent", "Authentication failed")

\* The two exchanges of a call answered by a token endpoint that issues as
\* many tokens as one call can ask for.
MaxRetryIssued == 5

get_valid_token_returns_again ==
    \E answer \in TokenAnswers, expires_in \in ExpiresIns :
        /\ rq.pc = "token"
        /\ ExchangeAnsweredWithin(MaxRetryIssued, answer, expires_in, "sent",
                                  "No valid token found")

refresh_returns_again ==
    \E answer \in TokenAnswers, expires_in \in ExpiresIns :
        /\ rq.pc = "refresh"
        /\ ExchangeAnsweredWithin(MaxRetryIssued, answer, expires_in, "resent",
                                  "Authentication failed")

\* The response of the request with the new token: a 200 is returned, a
\* transport error is wrapped by the inner except clause, and every other
\* status reaches raise_for_status and the except clause of the loop.
resent_response ==
    \E resp \in ApiResponses :
        /\ rq.pc = "resent"
        /\ resps' = Append(resps, [status |-> resp.status,
                                   retry_after |-> resp.retry_after,
                                   resent |-> TRUE])
        /\ LET h == HandleHTTPError(rq, sleeps)
           IN /\ rq' = IF resp.status = "200" THEN [rq EXCEPT !.pc = "returned"]
                       ELSE IF resp.status = "error"
                            THEN Raise(rq, "Authentication failed")
                       ELSE h.rq
              /\ sleeps' = IF resp.status \in {"200", "error"} THEN sleeps ELSE h.sleeps
        /\ UNCHANGED <<db, mergeVars, stateVars, userVars, loopVars, exchVars, credVars, fetchVars, syncVars, remoteVars, utok, nrequests, tokVars>>

----------------------------------------------------------------------------
(* AuthManager's OAuth tokens.                                              *)

MaxCalls == 2         \* TokenClient.request calls in one behaviour
MaxBatches == 1       \* refresh_all_tokens calls in one behaviour

Callers == {"c1", "c2"}

NoOAuth == [access_token |-> 0, refresh_token |-> 0, expires_at |-> 0,
            is_active |-> FALSE]

store_token(tbl, user_id, access_token, refresh_token, expires_in, utcnow) ==
    [tbl EXCEPT ![user_id] = [access_token |-> access_token,
                              refresh_token |-> refresh_token,
                              expires_at |-> utcnow + expires_in,
                              is_active |-> TRUE]]

\* get_token: the active row of the user, NoOAuth for None.
get_token(tbl, user_id) ==
    IF tbl[user_id] # NoOAuth /\ tbl[user_id].is_active THEN tbl[user_id] ELSE NoOAuth

deactivate_token(tbl, user_id) ==
    IF tbl[user_id] = NoOAuth THEN tbl
    ELSE [tbl EXCEPT ![user_id].is_active = FALSE]

\* get_active_tokens: the users of the rows the query returns.
get_active_tokens(tbl) == {u \in Users : tbl[u] # NoOAuth /\ tbl[u].is_active}

AuthManager_is_token_valid(tbl, user_id, utcnow) ==
    LET token == get_token(tbl, user_id)
    IN IF token = NoOAuth THEN FALSE
       ELSE IF token.expires_at <= utcnow + ValidityBuffer THEN FALSE
       ELSE TRUE

\* refresh_buffer_hours of TokenRefresher, and the minutes of an hour.
refresh_buffer_hours == 24

MinutesPerHour == 60

\* get_tokens_to_refresh: the users of the rows the query returns.
get_tokens_to_refresh(tbl, buffer_hours, utcnow) ==
    {u \in Users : /\ tbl[u] # NoOAuth
                   /\ tbl[u].is_active
                   /\ tbl[u].expires_at <= utcnow + buffer_hours * MinutesPerHour}

\* The orders in which the query may return the rows of the users in S.
Orders(S) == {q \in [1..Cardinality(S) -> S] : \A i, j \in DOMAIN q : i # j => q[i] # q[j]}

\* The OAuth callback of the API's authorization server: store_token with
\* the token the code exchange gave.
auth_callback ==
    \E u \in Users, expires_in \in ExpiresIns :
        /\ issued < MaxIssued
        /\ issued' = issued + 1
        /\ oauth' = store_token(oauth, u, issued + 1, issued + 1, expires_in, now)
        /\ revoked' = [revoked EXCEPT ![u] = FALSE]
        /\ UNCHANGED <<db, mergeVars, stateVars, userVars, loopVars, exchVars, credVars, fetchVars, syncVars, now, nexch, reqVars, tc, rf, ncalls,
                       nbatches>>

----------------------------------------------------------------------------
(* TokenClient.request, with get_access_token and refresh_token.  A call is *)
(* suspended at the exchange of get_access_token ("exchange"), at the       *)
(* request ("sent"), at the forced exchange after a 401 ("force") and at    *)
(* the request after it ("resent").                                         *)

IdleCall == [user |-> "u1", pc |-> "idle", refresh_token |-> 0, bearer |-> 0, err |-> None]

\* TokenClient.refresh_token from the answer of the token endpoint on: the
\* table, and what the call ends with ("HTTPError" for raise_for_status and
\* transport errors, "KeyError" for a response without the fields).
TokenClient_refresh_token(tbl, user_id, answer, expires_in, utcnow, n) ==
    IF answer = "ok"
    THEN [tbl |-> store_token(tbl, user_id, n, n, expires_in, utcnow),
          access_token |-> n, raised |-> None]
    ELSE IF answer = "incomplete"
         THEN [tbl |-> tbl, access_token |-> 0, raised |-> "KeyError"]
         ELSE [tbl |-> tbl, access_token |-> 0, raised |-> "HTTPError"]

\* A test that finds a token whatever the query gave, to set against the
\* one of get_access_token.
AlwaysFound(token) == FALSE

\* `if not token`, of get_access_token.
NotFound(token) == token = NoOAuth

\* request, up to its first await: get_access_token reads the token and
\* returns it, raises, or starts the exchange.
request_call(c) ==
    \E u \in Users :
        /\ tc[c].pc \in {"idle", "returned", "raised"}
        /\ ncalls < MaxCalls
        /\ ncalls' = ncalls + 1
        /\ LET token == get_token(oauth, u)
               call == [IdleCall EXCEPT !.user = u]
               expired == ~NotFound(token) /\ ~(token.expires_at > now)
           IN /\ tc' = [tc EXCEPT ![c] =
                           IF NotFound(token)
                           THEN [call EXCEPT !.pc = "raised", !.err = "ValueError"]
                           ELSE IF token.expires_at > now
                                THEN [call EXCEPT !.pc = "sent",
                                                  !.bearer = token.access_token]
                                ELSE [call EXCEPT !.pc = "exchange",
                                                  !.refresh_token = token.refresh_token]]
              /\ nexch' = IF expired THEN [nexch EXCEPT ![u] = @ + 1] ELSE nexch
        /\ UNCHANGED <<db, mergeVars, stateVars, userVars, loopVars, exchVars, credVars, fetchVars, syncVars, now, issued, revoked, reqVars, oauth,
                       rf, nbatches>>

\* The exchange of get_access_token is answered: the token is stored and
\* the request sent; an httpx.HTTPError deactivates the token and raises
\* ValueError; a KeyError leaves the call as it is.
get_access_token_returns(c) ==
    \E answer \in TokenAnswers, expires_in \in ExpiresIns :
        /\ tc[c].pc = "exchange"
        /\ answer = "ok" => issued < MaxIssued
        /\ LET u == tc[c].user
               res == TokenClient_refresh_token(oauth, u, answer, expires_in, now,
                                                issued + 1)
           IN /\ oauth' = IF res.raised = "HTTPError" THEN deactivate_token(res.tbl, u)
                          ELSE res.tbl
              /\ tc' = [tc EXCEPT ![c] =
                           IF res.raised = None
                           THEN [@ EXCEPT !.pc = "sent", !.bearer = res.access_token]
                           ELSE IF res.raised = "HTTPError"
                                THEN [@ EXCEPT !.pc = "raised", !.err = "ValueError"]
                                ELSE [@ EXCEPT !.pc = "raised", !.err = "KeyError"]]
              /\ revoked' = IF answer = "rejected" THEN [revoked EXCEPT ![u] = TRUE]
                            ELSE revoked
        /\ issued' = IF answer = "ok" THEN issued + 1 ELSE issued
        /\ UNCHANGED <<db, mergeVars, stateVars, userVars, loopVars, exchVars, credVars, fetchVars, syncVars, now, nexch, reqVars, rf, ncalls, nbatches>>

\* The response of the request: a 401 forces a refresh, every other failure
\* is raised as it is.
request_response(c) ==
    \E resp \in ApiResponses :
        /\ tc[c].pc = "sent"
        /\ LET u == tc[c].user
               token == get_token(oauth, u)
               force == resp.status = "401" /\ token # NoOAuth
           IN /\ tc' = [tc EXCEPT ![c] =
                           IF resp.status = "200" THEN [@ EXCEPT !.pc = "returned"]
                           ELSE IF resp.status = "401"
                                THEN IF force
                                     THEN [@ EXCEPT !.pc = "force",
                                                    !.refresh_token = token.refresh_token]
                                     ELSE [@ EXCEPT !.pc = "raised", !.err = "ValueError"]
                                ELSE [@ EXCEPT !.pc = "raised", !.err = "HTTPError"]]
              /\ nexch' = IF force THEN [nexch EXCEPT ![u] = @ + 1] ELSE nexch
        /\ UNCHANGED <<db, mergeVars, stateVars, userVars, loopVars, exchVars, credVars, fetchVars, syncVars, now, issued, revoked, reqVars, oauth,
                       rf, ncalls, nbatches>>

\* The forced exchange is answered: the token is stored and the request sent
\* again; an httpx.HTTPError becomes ValueError, and nothing is deactivated.
forced_refresh_returns(c) ==
    \E answer \in TokenAnswers, expires_in \in ExpiresIns :
        /\ tc[c].pc = "force"
        /\ answer = "ok" => issued < MaxIssued
        /\ LET u == tc[c].user
               res == TokenClient_refresh_token(oauth, u, answer, expires_in, now,
                                                issued + 1)
           IN /\ oauth' = res.tbl
              /\ tc' = [tc EXCEPT ![c] =
                           IF res.raised = None
                           THEN [@ EXCEPT !.pc = "resent", !.bearer = res.access_token]
                           ELSE IF res.raised = "HTTPError"
                                THEN [@ EXCEPT !.pc = "raised", !.err = "ValueError"]
                                ELSE [@ EXCEPT !.pc = "raised", !.err = "KeyError"]]
              /\ revoked' = IF answer = "rejected" THEN [revoked EXCEPT ![u] = TRUE]
                            ELSE revoked
        /\ issued' = IF answer = "ok" THEN issued + 1 ELSE issued
        /\ UNCHANGED <<db, mergeVars, stateVars, userVars, loopVars, exchVars, credVars, fetchVars, syncVars, now, nexch, reqVars, rf, ncalls, nbatches>>

\* The response of the request sent again: returned, or ValueError.
request_retry_response(c) ==
    \E resp \in ApiResponses :
        /\ tc[c].pc = "resent"
        /\ tc' = [tc EXCEPT ![c] =
                     IF resp.status = "200" THEN [@ EXCEPT !.pc = "returned"]
                     ELSE [@ EXCEPT !.pc = "raised", !.err = "ValueError"]]
        /\ UNCHANGED <<db, mergeVars, stateVars, userVars, loopVars, exchVars, credVars, fetchVars, syncVars, remoteVars, reqVars, oauth, rf, ncalls,
                       nbatches>>

----------------------------------------------------------------------------
(* TokenRefresher.refresh_all_tokens: the tokens of get_tokens_to_refresh,  *)
(* one exchange after the other.  rf.queue holds the tokens read at the     *)
(* start that are still to do; the call awaits the exchange of the first.   *)

IdleBatch == [queue |-> <<>>, success |-> 0, failed |-> 0, raised |-> FALSE]

Snapshot(tbl, u) == [user_id |-> u, refresh_token |-> tbl[u].refresh_token,
                     expires_at |-> tbl[u].expires_at]

refresh_all_tokens ==
    /\ rf.queue = <<>>
    /\ nbatches < MaxBatches
    /\ nbatches' = nbatches + 1
    /\ \E q \in Orders(get_tokens_to_refresh(oauth, refresh_buffer_hours, now)) :
          /\ rf' = [IdleBatch EXCEPT !.queue = [i \in DOMAIN q |-> Snapshot(oauth, q[i])]]
          /\ nexch' = IF q = <<>> THEN nexch ELSE [nexch EXCEPT ![q[1]] = @ + 1]
    /\ UNCHANGED <<db, mergeVars, stateVars, userVars, loopVars, exchVars, credVars, fetchVars, syncVars, now, issued, revoked, reqVars, oauth, tc,
                   ncalls>>

\* TokenRefresher.refresh_token from the answer on, and the next token of
\* the loop: a token that is refreshed is stored; on an httpx.HTTPError the
\* token is deactivated if it has expired; a KeyError ends the whole call.
refresh_token_returns ==
    \E answer \in TokenAnswers, expires_in \in ExpiresIns :
        /\ rf.queue # <<>>
        /\ answer = "ok" => issued < MaxIssued
        /\ LET token == Head(rf.queue)
               u == token.user_id
               rest == IF answer = "incomplete" THEN <<>> ELSE Tail(rf.queue)
           IN /\ oauth' = IF answer = "ok"
                          THEN store_token(oauth, u, issued + 1, issued + 1, expires_in, now)
                          ELSE IF answer \in {"rejected", "error"} /\ now > token.expires_at
                               THEN deactivate_token(oauth, u)
                               ELSE oauth
              /\ rf' = [queue |-> rest,
                        success |-> rf.success + (IF answer = "ok" THEN 1 ELSE 0),
                        failed |-> rf.failed + (IF answer \in {"rejected", "error"}
                                                THEN 1 ELSE 0),
                        raised |-> answer = "incomplete"]
              /\ nexch' = IF rest = <<>> THEN nexch
                          ELSE [nexch EXCEPT ![rest[1].user_id] = @ + 1]
              /\ revoked' = IF answer = "rejected" THEN [revoked EXCEPT ![u] = TRUE]
                            ELSE revoked
        /\ issued' = IF answer = "ok" THEN issued + 1 ELSE issued
        /\ UNCHANGED <<db, mergeVars, stateVars, userVars, loopVars, exchVars, credVars, fetchVars, syncVars, now, reqVars, tc, ncalls, nbatches>>

----------------------------------------------------------------------------
(* get_cycles / get_sleep / get_workouts / get_recoveries of WhoopAPI and   *)
(* of WhoopAPIIntegration: the loop over the pages of a collection.  The    *)
(* call is suspended at the request of a page; the request returns a        *)
(* response or raises.                                                      *)

MaxPages == 3         \* requests one fetch sends at most
MaxGets == 2          \* fetches in one behaviour
MaxRecords == 2       \* longest "records" list of a response

Records == {"r1", "r2"}

\* The values of "next_token" in a response: null or no such key (None), the
\* empty string, and two cursors.
NextTokens == {None, "", "t1", "t2"}

\* The responses of a page request.  records is <<>> when the response has
\* no "records" key and <<list>> when it has one.
PageResponses ==
    [records : {<<>>} \cup {<<l>> : l \in UNION {[1..n -> Records] : n \in 0..MaxRecords}},
     next_token : NextTokens]

\* response.get("records", []).
get_records(response) ==
    IF response.records = <<>> THEN <<>> ELSE response.records[1]

\* A loop that keeps the records of the last page only, to set against
\* all_records.extend.
assign(list, records) == records

\* all_records.extend(records).
extend(list, records) == list \o records

\* `not next_token`.
Falsy(token) == token \in {None, ""}

\* The call, up to the request of the first page: params has no "nextToken".
get_pages_call ==
    /\ fpc \in {"idle", "returned", "raised"}
    /\ ngets < MaxGets
    /\ ngets' = ngets + 1
    /\ fpc' = "await"
    /\ params' = None
    /\ all_records' = <<>>
    /\ next_token' = None
    /\ sent' = <<None>>
    /\ got' = <<>>
    /\ UNCHANGED <<db, mergeVars, stateVars, userVars, loopVars, exchVars, credVars, syncVars, authVars>>

\* The request of a page returned: the rest of the loop body and, when there
\* is a cursor, the head of the next iteration up to its request.
page_response ==
    \E response \in PageResponses :
        /\ fpc = "await"
        /\ Len(sent) = MaxPages => Falsy(response.next_token)
        /\ got' = Append(got, response)
        /\ all_records' = extend(all_records, get_records(response))
        /\ next_token' = response.next_token
        /\ IF Falsy(response.next_token)
           THEN /\ fpc' = "returned"
                /\ UNCHANGED <<params, sent>>
           ELSE /\ fpc' = "await"
                /\ params' = response.next_token
                /\ sent' = Append(sent, response.next_token)
        /\ UNCHANGED <<db, mergeVars, stateVars, userVars, loopVars, exchVars, credVars, syncVars, authVars, ngets>>

\* The request of a page raised: the call raises, all_records is lost.
page_raises ==
    /\ fpc = "await"
    /\ fpc' = "raised"
    /\ UNCHANGED <<db, mergeVars, stateVars, userVars, loopVars, exchVars, credVars, syncVars, authVars, params, all_records, next_token,
                   sent, got, ngets>>

----------------------------------------------------------------------------
(* The oauth_tokens table of AuthManager and the user tokens table of      *)
(* DataManager, row by row: store_token, deactivate_token,                  *)
(* get_tokens_to_refresh and save_oauth_token, each called on its own.      *)

MaxCredOps == 4       \* calls on the two tables in one behaviour

AccessTokens == {1, 2}

BufferHours == {0, 1}

\* timedelta(hours=24) of TokenManager.refresh_all_tokens.
expiry_hours == 24

\* The expires_in of the store_token calls and of the save_oauth_token calls.
StoredExpiresIns == {1, 2}

SavedExpiresIns == {2, expiry_hours * MinutesPerHour}

NoCredCall == [op |-> None, user_id |-> "u1", access_token |-> 0, expires_in |-> 0,
               buffer_hours |-> 0, at |-> 0, before |-> None, returned |-> FALSE,
               tokens |-> {}]

\* session.query(OAuthToken).filter(OAuthToken.user_id == user_id).first():
\* the index of the first row of the user, 0 for None.
FirstOfUser(rows, user_id) ==
    LET hits == {i \in DOMAIN rows : rows[i].user_id = user_id}
    IN IF hits = {} THEN 0 ELSE CHOOSE i \in hits : \A j \in hits : i <= j

\* What the table holds for the user: no row ("absent"), or a first row that
\* is active or inactive.
RecordOf(rows, user_id) ==
    LET i == FirstOfUser(rows, user_id)
    IN IF i = 0 THEN "absent"
       ELSE IF rows[i].is_active THEN "active" ELSE "inactive"

\* The lookup of get_token, which leaves the inactive rows out, to set
\* against the lookup of store_token and of deactivate_token.
FirstActiveOfUser(rows, user_id) ==
    LET hits == {i \in DOMAIN rows : rows[i].user_id = user_id /\ rows[i].is_active}
    IN IF hits = {} THEN 0 ELSE CHOOSE i \in hits : \A j \in hits : i <= j

\* The lookup of store_token and of deactivate_token.
TokenOfUser(rows, user_id) == FirstOfUser(rows, user_id)

\* AuthManager.store_token on the rows of the table.
store_token_rows(rows, user_id, access_token, refresh_token, expires_in, utcnow) ==
    LET expires_at == utcnow + expires_in
        i == TokenOfUser(rows, user_id)
    IN IF i = 0
       THEN Append(rows, [user_id |-> user_id, access_token |-> access_token,
                          refresh_token |-> refresh_token, expires_at |-> expires_at,
                          is_active |-> TRUE])
       ELSE [rows EXCEPT ![i] = [@ EXCEPT !.access_token = access_token,
                                          !.refresh_token = refresh_token,
                                          !.expires_at = expires_at,
                                          !.is_active = TRUE]]

\* AuthManager.deactivate_token on the rows of the table, and what it returns.
deactivate_token_rows(rows, user_id) ==
    LET i == TokenOfUser(rows, user_id)
    IN IF i = 0
       THEN [rows |-> rows, returned |-> FALSE]
       ELSE [rows |-> [rows EXCEPT ![i].is_active = FALSE], returned |-> TRUE]

\* token.expires_at < expiry_threshold.
IsBefore(expires_at, expiry_threshold) == expires_at < expiry_threshold

\* OAuthToken.expires_at <= refresh_threshold.
IsDue(expires_at, refresh_threshold) == expires_at <= refresh_threshold

\* AuthManager.get_tokens_to_refresh on the rows of the table: the rows the
\* query returns.
get_tokens_to_refresh_rows(rows, buffer_hours, utcnow) ==
    LET refresh_threshold == utcnow + buffer_hours * MinutesPerHour
    IN {rows[i] : i \in {j \in DOMAIN rows : /\ rows[j].is_active
                                             /\ IsDue(rows[j].expires_at,
                                                      refresh_threshold)}}

\* DataManager.save_oauth_token on the rows of the table.
save_oauth_token_rows(rows, user_id, access_token, refresh_token, expires_in, utcnow) ==
    LET expires_at == utcnow + expires_in
        i == FirstOfUser(rows, user_id)
    IN IF i # 0
       THEN [rows EXCEPT ![i] = [@ EXCEPT !.access_token = access_token,
                                          !.refresh_token = refresh_token,
                                          !.expires_at = expires_at]]
       ELSE Append(rows, [user_id |-> user_id, access_token |-> access_token,
                          refresh_token |-> refresh_token, expires_at |-> expires_at])

\* expiring_tokens of TokenManager.refresh_all_tokens, on the rows of the
\* table.
expiring_tokens(rows, utcnow) ==
    LET expiry_threshold == utcnow + expiry_hours * MinutesPerHour
    IN {rows[i] : i \in {j \in DOMAIN rows : IsBefore(rows[j].expires_at,
                                                     expiry_threshold)}}

store_token_call ==
    \E u \in Users, access_token \in AccessTokens, expires_in \in StoredExpiresIns :
        /\ ncred < MaxCredOps
        /\ ncred' = ncred + 1
        /\ otable' = store_token_rows(otable, u, access_token, access_token,
                                      expires_in, now)
        /\ cret' = [NoCredCall EXCEPT !.op = "store_token", !.user_id = u,
                                      !.access_token = access_token,
                                      !.expires_in = expires_in, !.at = now,
                                      !.before = RecordOf(otable, u)]
        /\ UNCHANGED <<db, mergeVars, stateVars, userVars, loopVars, exchVars, fetchVars, syncVars, authVars, utable>>

deactivate_token_call ==
    \E u \in Users :
        /\ ncred < MaxCredOps
        /\ ncred' = ncred + 1
        /\ LET r == deactivate_token_rows(otable, u)
           IN /\ otable' = r.rows
              /\ cret' = [NoCredCall EXCEPT !.op = "deactivate_token", !.user_id = u,
                                            !.at = now, !.returned = r.returned,
                                            !.before = RecordOf(otable, u)]
        /\ UNCHANGED <<db, mergeVars, stateVars, userVars, loopVars, exchVars, fetchVars, syncVars, authVars, utable>>

get_tokens_to_refresh_call ==
    \E buffer_hours \in BufferHours :
        /\ ncred < MaxCredOps
        /\ ncred' = ncred + 1
        /\ cret' = [NoCredCall EXCEPT !.op = "get_tokens_to_refresh",
                                      !.buffer_hours = buffer_hours, !.at = now,
                                      !.tokens = get_tokens_to_refresh_rows(
                                                     otable, buffer_hours, now)]
        /\ UNCHANGED <<db, mergeVars, stateVars, userVars, loopVars, exchVars, fetchVars, syncVars, authVars, otable, utable>>

save_oauth_token_call ==
    \E u \in Users, access_token \in AccessTokens, expires_in \in SavedExpiresIns :
        /\ ncred < MaxCredOps
        /\ ncred' = ncred + 1
        /\ utable' = save_oauth_token_rows(utable, u, access_token, access_token,
                                           expires_in, now)
        /\ cret' = [NoCredCall EXCEPT !.op = "save_oauth_token", !.user_id = u,
                                      !.access_token = access_token,
                                      !.expires_in = expires_in, !.at = now]
        /\ UNCHANGED <<db, mergeVars, stateVars, userVars, loopVars, exchVars, fetchVars, syncVars, authVars, otable>>

----------------------------------------------------------------------------
(* TokenClient.refresh_token, step by step: the call posts the exchange,    *)
(* the token endpoint answers it, and the call stores the token of the      *)
(* response when it runs again.  TokenRefresher.refresh_token has the same  *)
(* steps.  ex[c] is the exchange of caller c.                               *)

MaxExchangeIssued == 3   \* tokens the endpoint issues in a behaviour with exchanges

IdleExchange == [user |-> "u1", pc |-> "idle", refresh_token |-> 0, n |-> 0,
                 expires_in |-> 0]

\* The call, up to `await self.client.post`.
refresh_token_posts(c) ==
    \E u \in Users :
        /\ ex[c].pc = "idle"
        /\ get_token(oauth, u) # NoOAuth
        /\ ex' = [ex EXCEPT ![c] = [IdleExchange EXCEPT
                                       !.user = u, !.pc = "posted",
                                       !.refresh_token = get_token(oauth, u).refresh_token]]
        /\ UNCHANGED <<db, mergeVars, stateVars, userVars, loopVars, credVars, fetchVars, syncVars, authVars>>

\* The token endpoint answers the exchange: it issues a token, or fails.
\* The response is on its way to the call.
endpoint_answers(c) ==
    \E answer \in TokenAnswers, expires_in \in ExpiresIns :
        /\ ex[c].pc = "posted"
        /\ answer = "ok" => issued < MaxExchangeIssued
        /\ issued' = IF answer = "ok" THEN issued + 1 ELSE issued
        /\ ex' = [ex EXCEPT ![c] = IF answer = "ok"
                                   THEN [@ EXCEPT !.pc = "answered", !.n = issued + 1,
                                                  !.expires_in = expires_in]
                                   ELSE [@ EXCEPT !.pc = "failed"]]
        /\ revoked' = IF answer = "rejected" THEN [revoked EXCEPT ![ex[c].user] = TRUE]
                      ELSE revoked
        /\ UNCHANGED <<db, mergeVars, stateVars, userVars, loopVars, credVars, fetchVars, syncVars, now, nexch, reqVars,
                       tokVars>>

\* The call runs again with the response: store_token, and the return.  A
\* response that failed raises.
refresh_token_stores(c) ==
    /\ ex[c].pc \in {"answered", "failed"}
    /\ IF ex[c].pc = "answered"
       THEN /\ oauth' = TokenClient_refresh_token(oauth, ex[c].user, "ok",
                                                  ex[c].expires_in, now, ex[c].n).tbl
            /\ ex' = [ex EXCEPT ![c].pc = "stored"]
       ELSE /\ ex' = [ex EXCEPT ![c].pc = "raised"]
            /\ UNCHANGED oauth
    /\ UNCHANGED <<db, mergeVars, stateVars, userVars, loopVars, credVars, fetchVars, syncVars, remoteVars, reqVars,
                   tc, rf, ncalls, nbatches>>

----------------------------------------------------------------------------
(* The event loop with the _make_request calls of the tasks that gather     *)
(* started, one per user, in the legacy mode.  A task runs when the loop    *)
(* runs it; time.sleep does not return to the loop: the thread of the loop  *)
(* is in the sleep (holder is the task that called it) until it is over.    *)

MaxRounds == 1        \* gather calls in one behaviour

\* A 401 taken like a failure of the transport, to set against the raise of
\* the code.
UnauthorizedRetried(r) == NextAttempt(r)

\* The else branch of the 401 of a request without token manager or session.
Unauthorized(r) == Raise(r, "Authentication failed")

\* The request after the one at pos, in sync_user_data.
NextPos(pos) == IF pos = "profile" THEN "cycle" ELSE NextPc(pos)

\* What one pass of the retry loop does with a response, for a request of
\* the legacy mode: the request after it and the seconds of time.sleep it
\* called, if it called it.
AfterResponse(r, resp) ==
    IF resp.status = "200" THEN [rq |-> [r EXCEPT !.pc = "returned"], slept |-> <<>>]
    ELSE IF resp.status = "429"
         THEN [rq |-> NextAttempt(r),
               slept |-> <<IF resp.retry_after = <<>> THEN r.retry_delay
                           ELSE resp.retry_after[1]>>]
    ELSE IF resp.status = "401"
         THEN [rq |-> Unauthorized(r), slept |-> <<>>]
    ELSE LET h == HandleHTTPError(r, <<>>)
         IN [rq |-> h.rq, slept |-> h.sleeps]

\* gather: every task runs up to the request of its first attempt.
gather_requests ==
    \E delay \in RetryDelays :
        /\ nrounds < MaxRounds
        /\ holder = None
        /\ \A u \in Users : lt[u].pc \in {"idle", "returned", "raised"}
        /\ nrounds' = nrounds + 1
        /\ lt' = [u \in Users |-> SendWith(NewRequest(u, "static", delay), user_tokens[u])]
        /\ lpos' = [u \in Users |-> "profile"]
        /\ lresp' = [u \in Users |-> None]
        /\ UNCHANGED <<db, mergeVars, stateVars, userVars, exchVars, credVars, fetchVars, syncVars, authVars,
                       holder, wake>>

\* The loop runs the task of u, whose request has its response: the pass of
\* the retry loop up to the next await, or up to time.sleep.  A request that
\* returns is followed by the request of the next page of the category, when
\* the response has a next_token, or by the first request of the next
\* category; a request that raises ends the task.
task_response(u) ==
    \E resp \in ApiResponses, more \in BOOLEAN :
        /\ holder = None
        /\ lt[u].pc = "sent"
        /\ more => resp.status = "200" /\ lpos[u] \in Cats
        /\ lresp' = [lresp EXCEPT ![u] = resp.status]
        /\ LET a == AfterResponse(lt[u], resp)
               next == SendWith(NewRequest(u, "static", lt[u].retry_delay),
                                user_tokens[u])
           IN IF a.slept # <<>>
              THEN /\ lt' = [lt EXCEPT ![u].pc = "time.sleep"]
                   /\ holder' = u
                   /\ wake' = [rq |-> a.rq, seconds |-> a.slept[1]]
                   /\ UNCHANGED lpos
              ELSE IF a.rq.pc = "returned"
              THEN /\ lpos' = [lpos EXCEPT ![u] = IF more THEN @ ELSE NextPos(@)]
                   /\ lt' = [lt EXCEPT ![u] = IF lpos'[u] = "done" THEN a.rq ELSE next]
                   /\ UNCHANGED <<holder, wake>>
              ELSE /\ lt' = [lt EXCEPT ![u] = a.rq]
                   /\ UNCHANGED <<holder, wake, lpos>>
        /\ UNCHANGED <<db, mergeVars, stateVars, userVars, exchVars, credVars, fetchVars, syncVars, authVars,
                       nrounds>>

\* time.sleep returns: the task goes on to its next attempt, or raises.
sleep_returns ==
    /\ holder # None
    /\ lt' = [lt EXCEPT ![holder] = wake.rq]
    /\ holder' = None
    /\ UNCHANGED <<db, mergeVars, stateVars, userVars, exchVars, credVars, fetchVars, syncVars, authVars,
                   wake, nrounds, lpos, lresp>>

----------------------------------------------------------------------------
(* DataManager.get_user and DataManager.create_or_update_user.  user_data   *)
(* is a dict: a key is absent (NoKey) or has a value, which may be None.    *)

MaxUserOps == 3       \* create_or_update_user calls in one behaviour

NoKey == "<no key>"
UserFields == {"email", "first_name", "last_name"}
UserDatas == [UserFields -> {NoKey, None} \cup Vals]

NoUser == [user_id |-> None, email |-> None, first_name |-> None, last_name |-> None,
           created_at |-> 0, updated_at |-> 0]

NoUserCall == [user_id |-> None, user_data |-> [f \in UserFields |-> NoKey],
               before |-> NoUser, returned |-> NoUser]

\* user_data.get(key), whatever the default
dict_get_none(user_data, key, default) ==
    IF user_data[key] = NoKey THEN None ELSE user_data[key]

\* user_data.get(key, default)
dict_get(user_data, key, default) ==
    IF user_data[key] = NoKey THEN default ELSE user_data[key]

\* session.query(User).filter(User.user_id == user_id).first()
get_user(rows, user_id) ==
    LET S == {i \in DOMAIN rows : rows[i].user_id = user_id}
    IN IF S = {} THEN NoUser ELSE rows[CHOOSE i \in S : \A j \in S : i <= j]

create_or_update_user(rows, user_id, user_data, utcnow) ==
    LET user == get_user(rows, user_id)
    IN IF user = NoUser
       THEN Append(rows, [user_id |-> user_id,
                          email |-> dict_get(user_data, "email", None),
                          first_name |-> dict_get(user_data, "first_name", None),
                          last_name |-> dict_get(user_data, "last_name", None),
                          created_at |-> utcnow, updated_at |-> utcnow])
       ELSE LET i == CHOOSE i \in DOMAIN rows : rows[i] = user
            IN [rows EXCEPT ![i] =
                   [user EXCEPT !.email = dict_get(user_data, "email", user.email),
                                !.first_name = dict_get(user_data, "first_name",
                                                        user.first_name),
                                !.last_name = dict_get(user_data, "last_name",
                                                       user.last_name),
                                !.updated_at = utcnow]]

create_or_update_user_call ==
    \E u \in Users, user_data \in UserDatas :
        /\ nucalls < MaxUserOps
        /\ nucalls' = nucalls + 1
        /\ utbl' = create_or_update_user(utbl, u, user_data, now)
        /\ ucall' = [user_id |-> u, user_data |-> user_data,
                     before |-> get_user(utbl, u),
                     returned |-> get_user(utbl', u)]
        /\ UNCHANGED <<db, mergeVars, stateVars, loopVars, exchVars, credVars, fetchVars, syncVars,
                       authVars>>

----------------------------------------------------------------------------
(* OAuthStateStore.  The request handlers and the cleanup thread run        *)
(* concurrently; a `with self.lock` block is one step.  generate_state       *)
(* returns a token it has not returned before (secrets.token_urlsafe(32)).   *)

MaxClockTicks == 4    \* steps of the clock in one behaviour
ClockStep == 300      \* seconds of one step of the clock
MaxValidates == 3     \* validate_state calls in one behaviour

expiry_seconds == 600

StateTokens == {"s1", "s2", "s3"}

NoValidate == [state |-> None, at |-> 0, was_key |-> FALSE, returned |-> FALSE]

\* del self.states[state]
del(d, state) == [d EXCEPT ![state] = <<>>]

\* The dict left as it is.
keep(d, state) == d

\* del self.states[state] of the branch of a valid state.
del_valid(d, state) == del(d, state)

\* current_time - timestamp > self.expiry_seconds
Expired(current_time, timestamp) == current_time - timestamp > expiry_seconds

time_passes ==
    /\ clock < MaxClockTicks * ClockStep
    /\ clock' = clock + ClockStep
    /\ UNCHANGED <<db, mergeVars, userVars, loopVars, exchVars, credVars, fetchVars, syncVars,
                   authVars, states, cleanup_time, gen_at, nvalid, vlast, nvalidates>>

generate_state ==
    \E state \in StateTokens :
        /\ gen_at[state] = <<>>
        /\ states' = [states EXCEPT ![state] = <<clock>>]
        /\ gen_at' = [gen_at EXCEPT ![state] = <<clock>>]
        /\ UNCHANGED <<db, mergeVars, userVars, loopVars, exchVars, credVars, fetchVars, syncVars,
                       authVars, clock, cleanup_time, nvalid, vlast, nvalidates>>

validate_state ==
    \E state \in StateTokens :
        /\ nvalidates < MaxValidates
        /\ nvalidates' = nvalidates + 1
        /\ IF states[state] = <<>>
           THEN /\ vlast' = [state |-> state, at |-> clock, was_key |-> FALSE,
                             returned |-> FALSE]
                /\ UNCHANGED <<states, nvalid>>
           ELSE IF Expired(clock, states[state][1])
           THEN /\ states' = del(states, state)
                /\ vlast' = [state |-> state, at |-> clock, was_key |-> TRUE,
                             returned |-> FALSE]
                /\ UNCHANGED nvalid
           ELSE /\ states' = del_valid(states, state)
                /\ nvalid' = [nvalid EXCEPT ![state] = @ + 1]
                /\ vlast' = [state |-> state, at |-> clock, was_key |-> TRUE,
                             returned |-> TRUE]
        /\ UNCHANGED <<db, mergeVars, userVars, loopVars, exchVars, credVars, fetchVars, syncVars,
                       authVars, clock, cleanup_time, gen_at>>

\* _cleanup_expired reads the time, before it has the lock.
cleanup_reads_time ==
    /\ cleanup_time = <<>>
    /\ cleanup_time' = <<clock>>
    /\ UNCHANGED <<db, mergeVars, userVars, loopVars, exchVars, credVars, fetchVars, syncVars,
                   authVars, states, clock, gen_at, nvalid, vlast, nvalidates>>

\* _cleanup_expired with the lock: the states expired at the time it read.
cleanup_expired ==
    /\ cleanup_time # <<>>
    /\ states' = [s \in StateTokens |->
                    IF states[s] # <<>> /\ Expired(cleanup_time[1], states[s][1])
                    THEN <<>> ELSE states[s]]
    /\ cleanup_time' = <<>>
    /\ UNCHANGED <<db, mergeVars, userVars, loopVars, exchVars, credVars, fetchVars, syncVars,
                   authVars, clock, gen_at, nvalid, vlast, nvalidates>>

----------------------------------------------------------------------------
Init ==
    /\ db = [c \in Cats |-> <<>>]
    /\ last = NoCall
    /\ repeat = FALSE
    /\ nstores = 0
    /\ running = TRUE
    /\ ncycles = 0
    /\ pc = [u \in Users |-> "idle"]
    /\ wm = [u \in Users |-> [c \in Cats |-> NoTime]]
    /\ stored = [u \in Users |-> [c \in Cats |-> <<>>]]
    /\ page = [u \in Users |-> [c \in Cats |-> <<>>]]
    /\ again = [u \in Users |-> [c \in Cats |-> FALSE]]
    /\ nfetched = 0
    /\ sched = "loop"
    /\ ticks = 0
    /\ signal_at = None
    /\ failed_at = [u \in Users |-> NoFailure]
    /\ merged = [u \in Users |-> {}]
    /\ now = 0
    /\ issued = 0
    /\ nexch = [u \in Users |-> 0]
    /\ revoked = [u \in Users |-> FALSE]
    /\ utok = [u \in Users |-> NoToken]
    /\ rq = NewRequest("u1", "static", 1)
    /\ resps = <<>>
    /\ sleeps = <<>>
    /\ nrequests = 0
    /\ oauth = [u \in Users |-> NoOAuth]
    /\ tc = [c \in Callers |-> IdleCall]
    /\ rf = IdleBatch
    /\ ncalls = 0
    /\ nbatches = 0
    /\ fpc = "idle"
    /\ params = None
    /\ all_records = <<>>
    /\ next_token = None
    /\ sent = <<>>
    /\ got = <<>>
    /\ ngets = 0
    /\ otable = <<>>
    /\ utable = <<>>
    /\ cret = NoCredCall
    /\ ncred = 0
    /\ ex = [c \in Callers |-> IdleExchange]
    /\ lt = [u \in Users |-> NewRequest(u, "static", 1)]
    /\ holder = None
    /\ wake = [rq |-> NewRequest("u1", "static", 1), seconds |-> 0]
    /\ nrounds = 0
    /\ lpos = [u \in Users |-> "idle"]
    /\ lresp = [u \in Users |-> None]
    /\ utbl = <<>>
    /\ ucall = NoUserCall
    /\ nucalls = 0
    /\ states = [s \in StateTokens |-> <<>>]
    /\ clock = 0
    /\ cleanup_time = <<>>
    /\ gen_at = [s \in StateTokens |-> <<>>]
    /\ nvalid = [s \in StateTokens |-> 0]
    /\ vlast = NoValidate
    /\ nvalidates = 0

NextSync ==
    \/ StartCycle
    \/ GatherReturns
    \/ GatherRaises
    \/ SleepTick
    \/ SleepEnds
    \/ RunExits
    \/ Shutdown
    \/ sync_user_data

SpecSync == Init /\ [][NextSync]_vars

\* run with tasks that are given records by at most MaxFairFetched fetches:
\* the steps of run itself are those of NextSync.
NextSyncFair ==
    \/ StartCycle
    \/ GatherReturns
    \/ GatherRaises
    \/ SleepTick
    \/ SleepEnds
    \/ RunExits
    \/ Shutdown
    \/ sync_user_data /\ nfetched' <= MaxFairFetched

\* The event loop runs a task that is ready: the sleep that can end ends, and
\* run returns when its loop test fails.
SpecSyncFair == Init /\ [][NextSyncFair]_vars
                  /\ WF_sched(SleepEnds) /\ WF_sched(RunExits)

\* A store_X call with one record of the versions of a record.
store_version ==
    \E cat \in Cats, u \in Users :
        \E rec \in VersionPayloads(cat) : Store(cat, u, <<rec>>)

NextVersions ==
    \/ store_version

SpecVersions == Init /\ [][NextVersions]_vars

NextMerge ==
    \/ store_cycles
    \/ store_sleeps
    \/ store_workouts
    \/ store_recoveries

SpecMerge == Init /\ [][NextMerge]_vars

NextRequest ==
    \/ Tick
    \/ callback
    \/ make_request
    \/ get_valid_token_returns
    \/ attempt_response
    \/ refresh_returns
    \/ resent_response

SpecRequest == Init /\ [][NextRequest]_vars

\* One call from its first await to its end, every exchange it sends
\* answered.
NextRetry ==
    \/ callback
    \/ make_request
    \/ get_valid_token_returns_again
    \/ attempt_response
    \/ refresh_returns_again
    \/ resent_response

SpecRetry == Init /\ [][NextRetry]_vars

NextToken ==
    \/ Tick
    \/ auth_callback
    \/ refresh_all_tokens
    \/ refresh_token_returns
    \/ \E c \in Callers :
          \/ request_call(c)
          \/ get_access_token_returns(c)
          \/ request_response(c)
          \/ forced_refresh_returns(c)
          \/ request_retry_response(c)

SpecToken == Init /\ [][NextToken]_vars

\* The clock after MaxNow, for the refresh batch: a token of the shortest
\* lifetime has expired.
MaxLateNow == 3

LateTick ==
    /\ now >= MaxNow
    /\ now < MaxLateNow
    /\ now' = now + 1
    /\ UNCHANGED <<db, mergeVars, stateVars, userVars, loopVars, exchVars, credVars, fetchVars, syncVars, issued, nexch, revoked, reqVars, tokVars>>

\* The refresh batch next to the authorization callback, over a clock that
\* passes the expiry of a token.
NextRefresher ==
    \/ Tick
    \/ LateTick
    \/ auth_callback
    \/ refresh_all_tokens
    \/ refresh_token_returns

SpecRefresher == Init /\ [][NextRefresher]_vars

NextPages ==
    \/ get_pages_call
    \/ page_response
    \/ page_raises

SpecPages == Init /\ [][NextPages]_vars

\* TokenManager.refresh_all_tokens up to its first await: the tokens it is
\* going to refresh.
refresh_all_tokens_selects ==
    /\ ncred < MaxCredOps
    /\ ncred' = ncred + 1
    /\ cret' = [NoCredCall EXCEPT !.op = "refresh_all_tokens",
                                  !.buffer_hours = expiry_hours, !.at = now,
                                  !.tokens = expiring_tokens(utable, now)]
    /\ UNCHANGED <<db, mergeVars, stateVars, userVars, loopVars, exchVars, fetchVars, syncVars, authVars, otable, utable>>

NextCreds ==
    \/ Tick
    \/ store_token_call
    \/ deactivate_token_call
    \/ get_tokens_to_refresh_call
    \/ save_oauth_token_call
    \/ refresh_all_tokens_selects

SpecCreds == Init /\ [][NextCreds]_vars

NextExchange ==
    \/ Tick
    \/ auth_callback
    \/ \E c \in Callers : \/ refresh_token_posts(c)
                          \/ endpoint_answers(c)
                          \/ refresh_token_stores(c)

SpecExchange == Init /\ [][NextExchange]_vars

NextLoop ==
    \/ gather_requests
    \/ \E u \in Users : task_response(u)
    \/ sleep_returns

SpecLoop == Init /\ [][NextLoop]_vars

NextStates ==
    \/ time_passes
    \/ generate_state
    \/ validate_state
    \/ cleanup_reads_time
    \/ cleanup_expired

SpecStates == Init /\ [][NextStates]_vars

NextUsers ==
    \/ create_or_update_user_call

SpecUsers == Init /\ [][NextUsers]_vars

----------------------------------------------------------------------------
(* Properties of the merge. *)

RowsWithKey(tbl, key) == {i \in DOMAIN tbl : tbl[i].key = key}

WellFormedPayloads(cat) == {rec \in Payloads(cat) : WellFormed(rec)}

\* C1: idempotent merge.  From every reachable storage state and for every
\* record r of every category, merging r and then r again leaves exactly one
\* row with r's key; that row carries r's fields when r was new or strictly
\* newer than the stored row and is the stored row otherwise; the second
\* merge changes nothing and reports 0.  A store call that delivered the one
\* record of the call before it again reported 0.
C1_IdempotentMerge ==
    /\ \A cat \in Cats, u \in Users : \A r \in WellFormedPayloads(cat) :
          LET key == KeyOf(cat, r)
              i0 == QueryFirst(db[cat], key)
              a == StoreRecords(cat, db[cat], u, <<r>>)
              b == StoreRecords(cat, a.tbl, u, <<r>>)
              i1 == QueryFirst(a.tbl, key)
          IN /\ ~a.raised /\ ~b.raised
             /\ b.stored_count = 0
             /\ b.tbl = a.tbl
             /\ Cardinality(RowsWithKey(b.tbl, key)) = 1
             /\ IF i0 = 0
                THEN b.tbl[i1] = [key |-> key, user_id |-> u,
                                  updated_at |-> [t |-> r.updated_at.t, tzinfo |-> "naive"],
                                  val |-> r.val, created_at |-> r.created_at,
                                  start |-> r.start, end |-> r.end]
                ELSE IF r.updated_at.t > db[cat][i0].updated_at.t
                THEN /\ b.tbl[i1].updated_at.t = r.updated_at.t
                     /\ b.tbl[i1].val = r.val
                ELSE b.tbl[i1] = db[cat][i0]
    /\ repeat => last.stored_count = 0

\* A record was merged and then merged again.
C1_Witness ==
    /\ repeat
    /\ last.single # <<>>
    /\ ~last.raised
    /\ last.stored_count = 0
    /\ Cardinality(RowsWithKey(db[last.cat], KeyOf(last.cat, last.single[1]))) = 1

\* C2: a stored row is overwritten only by a strictly newer record.  In every
\* step every stored row stays in place, and a row that changes gets a
\* strictly greater updated_at; a record whose updated_at is equal to or
\* older than that of the stored row with its key leaves the table as it is.
C2_OverwriteOnlyIfNewer ==
    [][ /\ \A cat \in Cats : \A i \in DOMAIN db[cat] :
              /\ i \in DOMAIN db'[cat]
              /\ db'[cat][i] # db[cat][i]
                    => db'[cat][i].updated_at.t > db[cat][i].updated_at.t
        /\ \A cat \in Cats, u \in Users : \A r \in WellFormedPayloads(cat) :
              LET i0 == QueryFirst(db[cat], KeyOf(cat, r))
              IN (i0 # 0 /\ r.updated_at.t <= db[cat][i0].updated_at.t)
                    => /\ StoreRecords(cat, db[cat], u, <<r>>).tbl = db[cat]
                       /\ StoreRecords(cat, db[cat], u, <<r>>).stored_count = 0
      ]_vars

\* One call overwrote a stored row with a newer record and skipped another
\* record of the same batch.
C2_Witness ==
    /\ last.n = 2
    /\ last.updated = 1
    /\ last.inserted = 0
    /\ last.stored_count = 1
    /\ ~last.raised

----------------------------------------------------------------------------
(* Properties of the sync daemon. *)

\* C3: monotonic watermark.  In every step of the daemon, whatever the
\* outcome of the request or of the merge, the watermark of every (user,
\* category), max(updated_at) over the user's rows, does not decrease.
C3_MonotonicWatermark ==
    [][\A u \in Users, cat \in Cats :
          get_last_data_timestamp(db', u, cat) >= get_last_data_timestamp(db, u, cat)]_vars

\* A sync has moved a watermark that was already set.
C3_Witness ==
    \E u \in Users, cat \in Cats :
        /\ pc[u] = "done"
        /\ wm[u][cat] # NoTime
        /\ get_last_data_timestamp(db, u, cat) > wm[u][cat]

\* The step is the merge of what the fetch of cat returned to u's sync.
MergedStep(u, cat) == pc[u] = cat /\ pc'[u] = NextPc(cat)

\* C7: end-to-end sync.  When the fetch of (u, cat) returns one page with one
\* record of a new id whose updated_at is later than the watermark, the
\* table then holds exactly one row with that id, 1 record is reported and
\* the watermark is the record's updated_at; when the fetch returns again
\* the page the sync before it merged, 0 records are reported and the table
\* and the watermark are unchanged.
C7_EndToEndSync ==
    [][\A u \in Users, cat \in Cats :
          (MergedStep(u, cat) /\ Len(page'[u][cat]) = 1) =>
             LET r == page'[u][cat][1]
                 key == KeyOf(cat, r)
             IN /\ (/\ QueryFirst(db[cat], key) = 0
                     /\ r.updated_at.t > get_last_data_timestamp(db, u, cat))
                       => /\ Cardinality(RowsWithKey(db'[cat], key)) = 1
                          /\ stored'[u][cat] = <<1>>
                          /\ get_last_data_timestamp(db', u, cat) = r.updated_at.t
                /\ again'[u][cat]
                       => /\ stored'[u][cat] = <<0>>
                          /\ db' = db
                          /\ get_last_data_timestamp(db', u, cat)
                                = get_last_data_timestamp(db, u, cat)
      ]_vars

\* A record that advanced the watermark was fetched and merged again.
C7_Witness ==
    \E u \in Users, cat \in Cats :
        /\ again[u][cat]
        /\ stored[u][cat] = <<0>>
        /\ Len(page[u][cat]) = 1
        /\ Cardinality(RowsWithKey(db[cat], KeyOf(cat, page[u][cat][1]))) = 1
        /\ get_last_data_timestamp(db, u, cat) = page[u][cat][1].updated_at.t

----------------------------------------------------------------------------
(* Properties of the request loop and of the credentials. *)

\* C4: concurrent get_access_token calls for the same user whose token has
\* expired produce one remote refresh exchange: while one call awaits the
\* exchange, no other call for that user has an exchange of its own in flight.
C4_SingleFlightRefresh ==
    \A c1, c2 \in Callers :
        (c1 # c2 /\ tc[c1].user = tc[c2].user /\ tc[c1].pc = "exchange")
            => tc[c2].pc # "exchange"

\* C5: with max_retries = 3 and a base delay of 1, a request whose every
\* attempt failed with an HTTP-level error other than 429 has slept 1, 2 and
\* 4 before it fails with the exhaustion error.
C5_BackoffSchedule ==
    (/\ rq.pc = "raised"
     /\ rq.retry_delay = 1
     /\ resps # <<>>
     /\ \A i \in DOMAIN resps : resps[i].status \in {"500", "error"})
        => (sleeps = <<1, 2, 4>> /\ rq.err = "Failed to make request")

\* C6: is_token_valid is true iff the user has an active token whose
\* expires_at is more than 5 minutes in the future, for the tokens of
\* AuthManager and for those of DataManager.
C6_ExpiryBufferBoundary ==
    \A u \in Users :
        /\ AuthManager_is_token_valid(oauth, u, now)
               <=> (/\ oauth[u] # NoOAuth /\ oauth[u].is_active
                    /\ oauth[u].expires_at > now + ValidityBuffer)
        /\ DataManager_is_token_valid(utok, u, now).valid
               <=> (utok[u] # NoToken /\ utok[u].expires_at > now + ValidityBuffer)

\* C8: a request forces at most one refresh, and once the request sent
\* after that refresh has been answered with a 401 the request has failed.
C8_SingleForcedRefresh ==
    /\ rq.nrefresh <= 1
    /\ (\E i \in DOMAIN resps : resps[i].resent /\ resps[i].status = "401")
           => rq.pc = "raised"

\* C9: a 429 takes nothing from the attempts of the request: a request that
\* has received nothing but 429 responses has not failed.
C9_RateLimitOutsideBudget ==
    (rq.pc = "raised" /\ resps # <<>>)
        => \E i \in DOMAIN resps : resps[i].status # "429"

\* C10: once the token endpoint has rejected a refresh token of a user, the
\* user's token is inactive and no further refresh exchange is sent for the
\* user until the user authorizes again.
C10_RevokedNeverRetried ==
    [][\A u \in Users :
          /\ revoked'[u] => ~oauth'[u].is_active
          /\ (revoked[u] /\ revoked'[u]) => nexch'[u] = nexch[u]]_vars

\* C11: a refresh that fails for another reason than the rejection of the
\* refresh token (transport error, 5xx, token response without its fields)
\* leaves the stored token of the user as it was: when an exchange of a
\* TokenClient call or of the TokenRefresher batch ends in failure and the
\* endpoint has not rejected a refresh token of the user, oauth[u] is
\* unchanged.
C11_TransientFailureKeepsToken ==
    [][/\ \A c \in Callers :
             (/\ tc[c].pc \in {"exchange", "force"}
              /\ tc'[c].pc = "raised"
              /\ ~revoked'[tc[c].user])
                 => oauth'[tc[c].user] = oauth[tc[c].user]
       /\ (/\ rf.queue # <<>>
           /\ rf' # rf
           /\ rf'.success = rf.success
           /\ ~revoked'[Head(rf.queue).user_id])
              => oauth'[Head(rf.queue).user_id] = oauth[Head(rf.queue).user_id]
      ]_vars

\* C12: refresh_all_tokens attempts every token of the batch: whatever the
\* answer to the exchange of one token, the batch goes on with the tokens
\* that remain.
C12_BatchRefreshIsolation ==
    [][(rf.queue # <<>> /\ rf' # rf) => rf'.queue = Tail(rf.queue)]_vars

\* C13: when the daemon's run has ended, no per-user synchronization is
\* left unfinished: a failure of one user's synchronization is contained,
\* the others of the cycle run to their end.
C13_UserFailureContained ==
    (sched = "exited") => \A u \in Users : pc[u] \notin {"profile"} \cup Cats

\* C14: a synchronization that failed at one category has still fetched and
\* merged every other category of the cycle.
C14_CategoryFailureContained ==
    \A u \in Users :
        (pc[u] = "failed" /\ failed_at[u].at \in Cats)
            => \A c \in Cats \ {failed_at[u].at} : c \in merged[u]

C18_ShutdownInterruptsSleep ==
    /\ [][(sched = "sleep" /\ ~running) => ticks' = ticks]_<<sched, running, ticks>>
    /\ ((sched = "sleep" /\ ~running) ~> (sched = "exited"))

C18_Witness ==
    /\ sched = "exited"
    /\ signal_at = "sleep"
    /\ ticks < sync_interval

\* C19: run ends only when a shutdown was requested by a signal.
C19_RunsUntilSignalled ==
    (sched = "exited") => signal_at # None

\* C16: the watermark of a (user, category) changes only in a step in which
\* the fetch of the category returned and its merge committed.  A sync step
\* that fails, at a fetch or at a merge, leaves every table as it was, and so
\* do the shutdown request and every step after run has returned.
C16_NoPartialWatermark ==
    [][/\ \A u \in Users, cat \in Cats :
             get_last_data_timestamp(db', u, cat) # get_last_data_timestamp(db, u, cat)
                => \E v \in Users : MergedStep(v, cat)
       /\ (\E u \in Users : pc'[u] \in {"failed", "crashed"} /\ pc[u] # pc'[u])
             => db' = db
       /\ (running /\ ~running') => db' = db
       /\ sched = "exited" => db' = db
      ]_vars

\* A merge failed after an earlier category of the same sync was merged and
\* set a watermark, in a cycle during which the shutdown was requested.
C16_Witness ==
    \E u \in Users :
        /\ pc[u] = "failed"
        /\ failed_at[u].merge
        /\ failed_at[u].at = "sleep"
        /\ "cycle" \in merged[u]
        /\ get_last_data_timestamp(db, u, "cycle") # NoTime
        /\ get_last_data_timestamp(db, u, "sleep") = NoTime
        /\ signal_at = "gather"

\* The records of the pages, one page after the other.
RECURSIVE Concatenation(_)
Concatenation(responses) ==
    IF responses = <<>> THEN <<>>
    ELSE get_records(Head(responses)) \o Concatenation(Tail(responses))

\* C15: a fetch that returned gives the concatenation, in page order, of the
\* records of every page it received; its first request carried no cursor
\* and every later one the cursor of the response before it; every response
\* but the last carried a cursor and the last carried none (null, no key or
\* the empty string).  While the fetch goes on, it has sent one request more
\* than it has received responses, and every response carried a cursor.
C15_Pagination ==
    /\ fpc = "returned" =>
          /\ all_records = Concatenation(got)
          /\ Len(sent) = Len(got)
          /\ sent[1] = None
          /\ \A i \in 2..Len(sent) : sent[i] = got[i - 1].next_token
          /\ \A i \in 1..(Len(got) - 1) : ~Falsy(got[i].next_token)
          /\ Falsy(got[Len(got)].next_token)
    /\ fpc = "await" =>
          /\ Len(sent) = Len(got) + 1
          /\ \A i \in 1..Len(got) : ~Falsy(got[i].next_token)
          /\ params = sent[Len(sent)]

\* A fetch returned the records of three pages, each with records of its own.
C15_Witness ==
    /\ fpc = "returned"
    /\ Len(got) = 3
    /\ \A i \in 1..3 : get_records(got[i]) # <<>>
    /\ get_records(got[1]) # get_records(got[2])
    /\ sent[2] # sent[3]
    /\ Len(all_records) >= 4

\* C20: a user whose credential is deactivated is left out of every lookup
\* (get_token gives None, is_token_valid gives False, the user is neither
\* among the active tokens nor among the tokens to refresh), and the
\* credential becomes active again only by the store_token of a
\* re-authorization: a step that makes it active is no step of a
\* TokenClient.request call and no step of refresh_all_tokens.
C20_InactiveUntilReauthorized ==
    [][\A u \in Users :
          (oauth[u] # NoOAuth /\ ~oauth[u].is_active)
             => /\ get_token(oauth, u) = NoOAuth
                /\ ~AuthManager_is_token_valid(oauth, u, now)
                /\ u \notin get_active_tokens(oauth)
                /\ u \notin get_tokens_to_refresh(oauth, refresh_buffer_hours, now)
                /\ oauth'[u].is_active => (tc' = tc /\ rf' = rf)
      ]_vars

\* The rows of the user in a table.
RowsOfUser(rows, user_id) == {i \in DOMAIN rows : rows[i].user_id = user_id}

\* C21: each of the two token tables holds at most one row per user, and so
\* at most one active row.  store_token adds a row when the user has none,
\* active or not, and overwrites the row of the user otherwise, the rows of
\* the other users left as they are; after it the row of the user is active,
\* carries the tokens of the call and expires_at = utcnow() + expires_in.
\* save_oauth_token does the same on its table, which has no active flag.
C21_OneRecordPerUser ==
    [][/\ \A u \in Users : /\ Cardinality(RowsOfUser(otable', u)) <= 1
                           /\ Cardinality(RowsOfUser(utable', u)) <= 1
       /\ otable' # otable \/ utable' # utable \/ cret' # cret =>
            \A u \in Users :
              /\ (cret'.op = "store_token" /\ cret'.user_id = u) =>
                    /\ Len(otable') = Len(otable)
                                      + (IF RowsOfUser(otable, u) = {} THEN 1 ELSE 0)
                    /\ \A i \in DOMAIN otable : otable[i].user_id # u
                                                   => otable'[i] = otable[i]
                    /\ \A i \in RowsOfUser(otable', u) :
                          otable'[i] = [user_id |-> u,
                                        access_token |-> cret'.access_token,
                                        refresh_token |-> cret'.access_token,
                                        expires_at |-> now + cret'.expires_in,
                                        is_active |-> TRUE]
                    /\ RowsOfUser(otable', u) # {}
              /\ (cret'.op = "save_oauth_token" /\ cret'.user_id = u) =>
                    /\ Len(utable') = Len(utable)
                                      + (IF RowsOfUser(utable, u) = {} THEN 1 ELSE 0)
                    /\ \A i \in DOMAIN utable : utable[i].user_id # u
                                                   => utable'[i] = utable[i]
                    /\ \A i \in RowsOfUser(utable', u) :
                          utable'[i] = [user_id |-> u,
                                        access_token |-> cret'.access_token,
                                        refresh_token |-> cret'.access_token,
                                        expires_at |-> now + cret'.expires_in]
                    /\ RowsOfUser(utable', u) # {}
      ]_vars

\* store_token was called for a user whose row was inactive, later than the
\* call that made the row, and the table holds the rows of two users.
C21_Witness ==
    /\ cret.op = "store_token"
    /\ cret.before = "inactive"
    /\ cret.at > 0
    /\ Len(otable) = 2
    /\ \E i \in DOMAIN otable : otable[i].user_id = cret.user_id /\ otable[i].is_active

\* C29: deactivate_token returns True when the table holds a row of the
\* user, active or not, and that row is then inactive, with the tokens and
\* expires_at it had; it returns False, and changes nothing, when the table
\* holds none.  No row is removed and no row of another user changes.
C29_Deactivate ==
    [][(cret'.op = "deactivate_token" /\ (otable' # otable \/ cret' # cret)) =>
          LET u == cret'.user_id
          IN /\ cret'.returned <=> (RowsOfUser(otable, u) # {})
             /\ Len(otable') = Len(otable)
             /\ \A i \in DOMAIN otable :
                   otable'[i] = IF otable[i].user_id = u
                                THEN [otable[i] EXCEPT !.is_active = FALSE]
                                ELSE otable[i]
             /\ ~cret'.returned => otable' = otable
      ]_vars

\* deactivate_token returned True for a row that was inactive already, and
\* False for a user without a row.
C29_Witness ==
    /\ cret.op = "deactivate_token"
    /\ cret.before = "inactive"
    /\ cret.returned
    /\ \E u \in Users : RowsOfUser(otable, u) = {}

\* C30: the tokens due for refresh are the active rows whose expires_at is
\* at or before utcnow() + buffer_hours, the rows that have expired among
\* them, and no other row: no inactive row and no row that expires later.
\* This is what get_tokens_to_refresh(buffer_hours) returns, and what
\* TokenManager.refresh_all_tokens selects from its table, which has no
\* active flag, with its buffer of 24 hours.
C30_DueForRefresh ==
    /\ (cret.op = "get_tokens_to_refresh" /\ now = cret.at) =>
          \A i \in DOMAIN otable :
              (otable[i] \in cret.tokens)
                 <=> (/\ otable[i].is_active
                      /\ otable[i].expires_at <= cret.at + cret.buffer_hours * 60)
    /\ (cret.op = "refresh_all_tokens" /\ now = cret.at) =>
          \A i \in DOMAIN utable :
              (utable[i] \in cret.tokens)
                 <=> utable[i].expires_at <= cret.at + cret.buffer_hours * 60

\* C22: the stored token of a user is the one the endpoint issued last:
\* when no response of an exchange for the user is on its way, the stored
\* access_token, refresh_token and expires_at are not those of a token
\* issued before the token of another exchange that has been stored.
C22_StoredIsLastIssued ==
    \A u \in Users :
        (/\ oauth[u] # NoOAuth
         /\ \A c \in Callers : ~(ex[c].user = u /\ ex[c].pc = "answered"))
            => \A c \in Callers :
                  (ex[c].user = u /\ ex[c].pc = "stored")
                     => /\ oauth[u].access_token >= ex[c].n
                        /\ oauth[u].refresh_token >= ex[c].n

\* C23: get_access_token returns the stored access token without an exchange
\* exactly when is_token_valid holds for the user, that is when the user has
\* an active token that expires more than the buffer of 5 minutes ahead; when
\* the user has a token and is_token_valid does not hold, it sends a refresh
\* exchange.
C23_ValidOrRefreshed ==
    [][\A c \in Callers :
          (tc[c].pc \in {"idle", "returned", "raised"} /\ tc'[c] # tc[c]) =>
             LET u == tc'[c].user
             IN /\ tc'[c].pc = "sent" => AuthManager_is_token_valid(oauth, u, now)
                /\ (get_token(oauth, u) # NoOAuth
                    /\ ~AuthManager_is_token_valid(oauth, u, now))
                      => tc'[c].pc = "exchange"
      ]_vars

\* C24: a call for a user who has no token at all raises ValueError at once:
\* no exchange is sent, no request is sent, and neither the token table nor
\* the tokens the endpoint has issued change.
C24_NoCredential ==
    [][\A c \in Callers :
          (/\ tc[c].pc \in {"idle", "returned", "raised"}
           /\ tc'[c] # tc[c]
           /\ oauth[tc'[c].user] = NoOAuth)
             => /\ tc'[c].pc = "raised"
                /\ tc'[c].err = "ValueError"
                /\ tc'[c].bearer = 0
                /\ nexch' = nexch
                /\ oauth' = oauth
                /\ issued' = issued
                /\ revoked' = revoked
      ]_vars

\* A call for a user without a token has raised, while the other user has a
\* token; no exchange was ever sent for the user.
C24_Witness ==
    \E c \in Callers :
        /\ tc[c].pc = "raised"
        /\ tc[c].err = "ValueError"
        /\ oauth[tc[c].user] = NoOAuth
        /\ nexch[tc[c].user] = 0
        /\ \E u \in Users : oauth[u] # NoOAuth

\* C25: a malformed record of a batch is skipped and the rest of the batch is
\* stored: no store_X call raises, and from every table that a call with a
\* full batch has left and another call may run on, every well-formed record
\* of every batch has a row with its key after the call, whatever the other
\* records of the batch are.
C25_MalformedRecordSkipped ==
    /\ ~last.raised
    /\ (last.n = MaxBatch /\ nstores < MaxStores) =>
          \A cat \in Cats, u \in Users : \A data \in Batches(cat) :
              LET r == StoreRecords(cat, db[cat], u, data)
              IN /\ ~r.raised
                 /\ \A i \in DOMAIN data :
                       WellFormed(data[i])
                          => QueryFirst(r.tbl, KeyOf(cat, data[i])) # 0

\* The updated_at known for the key of record i of the batch when the loop
\* comes to it: that of the row of the table and those of the records before
\* it in the batch.
TimesBefore(cat, tbl, data, i) ==
    {tbl[j].updated_at.t : j \in RowsWithKey(tbl, KeyOf(cat, data[i]))}
    \cup {data[j].updated_at.t :
            j \in {k \in 1..(i - 1) : KeyOf(cat, data[k]) = KeyOf(cat, data[i])}}

\* Record i of the batch is inserted, or overwrites the row of its key.
Written(cat, tbl, data, i) ==
    \/ TimesBefore(cat, tbl, data, i) = {}
    \/ \A t \in TimesBefore(cat, tbl, data, i) : data[i].updated_at.t > t

\* C26: the count a store_X call returns is the number of records of the
\* batch that were inserted or that overwrote a row; the records that were
\* skipped do not count.  A batch of one new record returns 1; a batch of one
\* record whose id is stored with an older updated_at returns 1, and the row
\* then carries the fields of the record; a batch of one record that is not
\* newer than its row returns 0.  In every call the rows inserted and the
\* stored rows changed are no more than the count, and the count is no more
\* than the batch.
C26_StoredCount ==
    /\ ~last.raised => /\ last.inserted + last.updated <= last.stored_count
                       /\ last.stored_count <= last.n
    /\ nstores < MaxStores =>
          \A cat \in Cats, u \in Users :
             \A data \in {b \in Batches(cat) : \A i \in DOMAIN b : WellFormed(b[i])} :
                LET r == StoreRecords(cat, db[cat], u, data)
                IN /\ ~r.raised
                   /\ r.stored_count
                         = Cardinality({i \in DOMAIN data : Written(cat, db[cat], data, i)})
                   /\ Len(data) = 1 =>
                         LET key == KeyOf(cat, data[1])
                             i0 == QueryFirst(db[cat], key)
                             i1 == QueryFirst(r.tbl, key)
                         IN IF i0 = 0
                            THEN r.stored_count = 1 /\ Len(r.tbl) = Len(db[cat]) + 1
                            ELSE IF data[1].updated_at.t > db[cat][i0].updated_at.t
                            THEN /\ r.stored_count = 1
                                 /\ r.tbl[i1].val = data[1].val
                                 /\ r.tbl[i1].updated_at.t = data[1].updated_at.t
                                 /\ Len(r.tbl) = Len(db[cat])
                            ELSE r.stored_count = 0 /\ r.tbl = db[cat]

\* A call stored the one record of its batch over a stored row with another
\* val and an older updated_at, and returned 1.
C26_Witness ==
    /\ last.n = 1
    /\ last.single # <<>>
    /\ ~last.raised
    /\ last.stored_count = 1
    /\ last.updated = 1
    /\ last.inserted = 0
    /\ nstores = 2
    /\ LET i == QueryFirst(db[last.cat], KeyOf(last.cat, last.single[1]))
       IN /\ i # 0
          /\ db[last.cat][i].val = last.single[1].val
          /\ db[last.cat][i].val = "b"
          /\ db[last.cat][i].updated_at.t = last.single[1].updated_at.t

\* C27: every table holds at most one row per key, the id of a cycle, a
\* sleep or a workout and the pair (cycle_id, sleep_id) of a recovery,
\* whatever batches were stored and for whatever users.
C27_UniqueKey ==
    \A cat \in Cats : \A i, j \in DOMAIN db[cat] :
        db[cat][i].key = db[cat][j].key => i = j

\* A call stored a batch that carries the same key twice: the first record
\* was inserted and the second overwrote it.
C27_Witness ==
    /\ last.n = 2
    /\ last.inserted = 1
    /\ last.updated = 0
    /\ last.stored_count = 2
    /\ ~last.raised
    /\ Len(db[last.cat]) = 1

\* C28: a backoff sleep and a rate-limit sleep are suspension points: while
\* the task of one user is in its sleep, the loop can run the task of
\* another user whose request has its response.
C28_SleepSuspends ==
    \A u, v \in Users :
        (holder = u /\ v # u /\ lt[v].pc = "sent") => ENABLED task_response(v)

\* C31: after create_or_update_user(user_id, data), get_user(user_id) is a
\* user with that user_id and the email, first name and last name of data,
\* a field absent from data keeping the value stored before (None for a new
\* user); and there is never more than one row of a user_id, and exactly
\* one for the user of the call.
C31_UserUpsert ==
    /\ \A u \in Users : Cardinality({i \in DOMAIN utbl : utbl[i].user_id = u}) <= 1
    /\ ucall.user_id # None =>
         LET user == get_user(utbl, ucall.user_id)
         IN /\ Cardinality({i \in DOMAIN utbl : utbl[i].user_id = ucall.user_id}) = 1
            /\ user = ucall.returned
            /\ user.user_id = ucall.user_id
            /\ \A f \in UserFields :
                 user[f] = IF ucall.user_data[f] # NoKey THEN ucall.user_data[f]
                           ELSE ucall.before[f]

\* An update of a stored user that leaves out a field the user has a value
\* of and changes another.
C31_Witness ==
    /\ ucall.before # NoUser
    /\ ucall.user_data["email"] = NoKey
    /\ ucall.before.email \in Vals
    /\ ucall.user_data["first_name"] \in Vals
    /\ ucall.before.first_name \in Vals
    /\ ucall.user_data["first_name"] # ucall.before.first_name
    /\ Len(utbl) = 2

\* C32: a state validates at most once, whatever the interleaving of
\* validate_state and cleanup; a state that was never generated, or is older
\* than expiry_seconds, does not validate; and a validation attempt leaves
\* the state out of the store, whether it succeeded or found it expired.
C32_OneTimeState ==
    /\ \A s \in StateTokens : nvalid[s] <= 1
    /\ \A s \in StateTokens : gen_at[s] = <<>> => nvalid[s] = 0 /\ states[s] = <<>>
    /\ vlast.returned =>
         /\ gen_at[vlast.state] # <<>>
         /\ vlast.at - gen_at[vlast.state][1] <= expiry_seconds
    /\ vlast.was_key => states[vlast.state] = <<>>

\* A state was validated, a second attempt on it was refused, and an attempt
\* on an expired state that cleanup had not removed was refused.
C32_Witness ==
    /\ \E s \in StateTokens : nvalid[s] = 1 /\ vlast.state # s
    /\ nvalidates = 3
    /\ vlast.was_key /\ ~vlast.returned
    /\ cleanup_time # <<>>

\* C33: a refresh of the batch that fails deactivates the credential only if
\* the credential's expires_at is in the past at that time; a credential
\* that has not expired stays as it is, active and with the same tokens.
C33_DeactivatedOnlyIfExpired ==
    [][(rf.queue # <<>> /\ rf'.failed = rf.failed + 1) =>
         LET u == Head(rf.queue).user_id
         IN ~(now > oauth[u].expires_at) => oauth'[u] = oauth[u]]_vars

\* C34: cycles do not overlap.  With Idle the loop test and the sleep,
\* Running the gather and ShuttingDown the end of run: Running is entered
\* from Idle only, and only when no user sync is in flight; ShuttingDown is
\* not left; and no user sync is in flight while the scheduler is Idle, so
\* that the syncs of a new cycle start after those of the cycle before have
\* all returned.
Phase ==
    IF sched = "gather" THEN "Running"
    ELSE IF sched = "exited" THEN "ShuttingDown" ELSE "Idle"

InFlight(u) == pc[u] \in {"profile"} \cup Cats

C34_NoOverlap ==
    /\ [][/\ (Phase' = "Running" /\ Phase # "Running") =>
               (Phase = "Idle" /\ \A u \in Users : ~InFlight(u))
          /\ Phase = "ShuttingDown" => Phase' = "ShuttingDown"
          /\ \A u \in Users : (~InFlight(u) /\ InFlight(u)') => Phase # "Running"]_vars
    /\ [](Phase = "Idle" => \A u \in Users : ~InFlight(u))

\* The second cycle is running, one of its syncs past the profile.
C34_Witness ==
    /\ ncycles = 2
    /\ sched = "gather"
    /\ \E u \in Users : pc[u] \in Cats

\* C35: a merge batch is all or nothing.  A sync step whose store_X call
\* returned leaves a row for every record of its batch and changes no other
\* table; a sync step whose store_X call raised leaves the table of the
\* category as it was, none of the batch's rows written, and the tables of
\* the categories merged earlier in the same sync keep their rows.
C35_BatchAllOrNothing ==
    [][\A u \in Users, cat \in Cats :
          /\ MergedStep(u, cat) =>
                /\ \A i \in DOMAIN page'[u][cat] :
                      QueryFirst(db'[cat], KeyOf(cat, page'[u][cat][i])) # 0
                /\ \A c \in Cats \ {cat} : db'[c] = db[c]
          /\ (pc[u] = cat /\ pc'[u] = "failed" /\ failed_at'[u].merge) =>
                /\ db'[cat] = db[cat]
                /\ \A c \in merged[u] : db'[c] = db[c] /\ merged'[u] = merged[u]
      ]_vars

\* The merge of the sleeps of a sync raised after the cycles of the same
\* sync were merged and left rows.
C35_Witness ==
    \E u \in Users :
        /\ pc[u] = "failed"
        /\ failed_at[u] = [at |-> "sleep", merge |-> TRUE]
        /\ merged[u] = {"cycle"}
        /\ \E i \in DOMAIN db["cycle"] : db["cycle"][i].user_id = u
        /\ db["sleep"] = <<>>

\* C36: a merge leaves the key, the owning user_id, created_at and start of
\* every row as they were, and the end of every row that is not a cycle;
\* it removes no row; whoever the user of the call is.
C36_UpdateFrame ==
    [][\A cat \in Cats :
          /\ Len(db'[cat]) >= Len(db[cat])
          /\ \A i \in DOMAIN db[cat] :
                /\ db'[cat][i].key = db[cat][i].key
                /\ db'[cat][i].user_id = db[cat][i].user_id
                /\ db'[cat][i].created_at = db[cat][i].created_at
                /\ db'[cat][i].start = db[cat][i].start
                /\ cat # "cycle" => db'[cat][i].end = db[cat][i].end
      ]_vars

\* A sleep was updated from a payload with another created_at, start and
\* end than the ones of its row.
C36_Witness ==
    /\ last.updated = 1
    /\ last.cat = "sleep"
    /\ db["sleep"][1].val = last.single[1].val
    /\ db["sleep"][1].created_at # last.single[1].created_at
    /\ db["sleep"][1].end # last.single[1].end
    /\ db["sleep"][1].start # last.single[1].start

\* C37: a _make_request call ends after at most max_retries attempts of its
\* loop, having sent at most 2 * max_retries requests and at most
\* max_retries refresh exchanges.
C37_BoundedRetries ==
    /\ rq.attempt < max_retries
    /\ Len(resps) <= 2 * max_retries
    /\ Cardinality({i \in DOMAIN resps : ~resps[i].resent}) <= max_retries
    /\ nexch[rq.user] <= max_retries
    /\ (Len(resps) = 2 * max_retries /\ resps[Len(resps)].status # "429")
          => rq.pc \in {"returned", "raised"}

\* C38: without token manager, a 401 fails the request at once with the
\* authentication error: no refresh exchange is sent, the request is not
\* sent again, no sleep is entered, and the task sends no other request of
\* the sync.
C38_StaticUnauthorized ==
    /\ [][\A u \in Users :
             (lt[u].pc = "sent" /\ lt'[u] # lt[u] /\ lresp'[u] = "401") =>
                /\ lt'[u].pc = "raised"
                /\ lt'[u].err = "Authentication failed"
                /\ lt'[u].attempt = lt[u].attempt
                /\ lt'[u].nrefresh = 0
                /\ holder' = None
                /\ lpos'[u] = lpos[u]
                /\ nexch' = nexch
         ]_vars
    /\ [][\A u \in Users :
             (lt[u].pc = "raised" /\ nrounds' = nrounds) =>
                (lt'[u] = lt[u] /\ lpos'[u] = lpos[u] /\ lresp'[u] = lresp[u])
         ]_vars

\* The task of a user got a 401 to its sleep request, on its first attempt,
\* and has ended there; the task of the other user has run to its end.
C38_Witness ==
    \E u, v \in Users :
        /\ lresp[u] = "401"
        /\ lpos[u] = "sleep"
        /\ lt[u].pc = "raised"
        /\ lt[u].attempt = 0
        /\ lpos[v] = "done"

\* C39: within one sync the categories are merged in the order cycle, sleep,
\* workout, recovery, and the fetch of a category is in flight only when the
\* merges of all the categories before it have committed: a sync that
\* merges its recoveries has merged its cycles and its sleeps.
Before(cat) ==
    {CatOrder[j] : j \in {k \in DOMAIN CatOrder :
                             \E i \in DOMAIN CatOrder : CatOrder[i] = cat /\ k < i}}

C39_CategoryOrder ==
    /\ [][\A u \in Users, cat \in Cats :
             (pc[u] = cat /\ cat \in merged'[u] /\ cat \notin merged[u]) =>
                /\ merged[u] = Before(cat)
                /\ merged'[u] = Before(cat) \cup {cat}
                /\ pc'[u] \in Cats => Before(pc'[u]) = merged'[u]
         ]_vars
    /\ [](\A u \in Users :
             /\ pc[u] \in Cats => merged[u] = Before(pc[u])
             /\ "recovery" \in merged[u] => {"cycle", "sleep"} \subseteq merged[u])

\* A sync has merged its four categories, with rows of its cycles and of
\* its recoveries.
C39_Witness ==
    \E u \in Users :
        /\ pc[u] = "done"
        /\ merged[u] = Cats
        /\ \E i \in DOMAIN db["cycle"] : db["cycle"][i].user_id = u
        /\ \E i \in DOMAIN db["recovery"] : db["recovery"][i].user_id = u

====
